---- MODULE Spec2Model ----
(***************************************************************************)
(* UrlDebloater: the URL washing engine (urlwasher/src/lib.rs) and the     *)
(* text washer on top of it (urlwasher/src/text_washer.rs), and the GET     *)
(* /wash endpoint of the mixer (mixer/src/main.rs, mixer/src/error.rs), and *)
(* the desktop app around the text washer (desktop/src/main.rs,            *)
(* desktop/src/clipboard_poller.rs, desktop/src/config.rs).                *)
(*                                                                         *)
(* A Url is a record [scheme, domain, host, path, query]:                  *)
(*   scheme  the scheme string;                                            *)
(*   domain  TRUE when the host is a domain name (Url::domain() is Some),  *)
(*           FALSE when it is an IP address;                               *)
(*   host    the normalised (lower-case) host string;                      *)
(*   path    the sequence of path segments (Url::path_segments());         *)
(*   query   [some, segs]: some = FALSE is "no query component"; segs is   *)
(*           the sequence of '&'-separated raw pieces [k, v, eq] of the    *)
(*           query string, k and v still percent-encoded; the empty piece  *)
(*           is [k |-> "", v |-> "", eq |-> FALSE].                        *)
(***************************************************************************)
EXTENDS Naturals, Sequences, FiniteSets, TLC

VARIABLES
    rules,      \* the rule table wash() scans (rule_set() in the program)
    env,        \* the callers of this run: [urls, texts, parallel], the URLs
                \* and texts they pass and how many wash() calls they keep
                \* in progress at a time
    config,     \* UrlWasher.config: [mixer_instance, redirect_policy]
    cache,      \* UrlWasher.cache: LRU list of [k, v], most recently used first
    lock,       \* holder of the cache Mutex: a call id, or 0 when free
    call,       \* per wash() call: its position, locals and bookkeeping
    tw,         \* the TextWasher.wash() call in progress
    mx,         \* the request the mixer's GET /wash handler is serving
    app,        \* the desktop app's watch channel: the AppState published
                \* last, and what its receivers and the GUI have done
    job,        \* the background job of the supervisor: the clipboard
                \* patcher and its ClipboardPoller
    clip,       \* the system clipboard
    disk        \* persist_config and the config file

vars == <<rules, env, config, cache, lock, call, tw, mx, app, job, clip, disk>>

\* ------------------------------------------------------------------ bounds

\* wash() calls that may be in progress at the same time
NCalls == 2
\* capacity of the LRU cache in the model (1024 in the program)
CacheCap == 2

Calls == 1..NCalls

\* ------------------------------------------------------------- sequences

Range(s) == {s[i] : i \in 1..Len(s)}

RECURSIVE SelectSeqBy(_, _)
\* the subsequence of s whose elements are in the set keep
SelectSeqBy(s, keep) ==
    IF s = <<>> THEN <<>>
    ELSE IF Head(s) \in keep
         THEN <<Head(s)>> \o SelectSeqBy(Tail(s), keep)
         ELSE SelectSeqBy(Tail(s), keep)

Min(S) == CHOOSE x \in S : \A y \in S : x <= y
Max(S) == CHOOSE x \in S : \A y \in S : x >= y

\* ------------------------------------------------------------------ URLs

NoQuery == [some |-> FALSE, segs |-> <<>>]
Query(segs) == [some |-> TRUE, segs |-> segs]

\* one raw piece "k=v" of a query string, and the piece "k" without '='
Piece(k, v) == [k |-> k, v |-> v, eq |-> TRUE]
Bare(k) == [k |-> k, v |-> "", eq |-> FALSE]
EmptyPiece == Bare("")

U(scheme, host, path, query) ==
    [scheme |-> scheme, domain |-> TRUE, host |-> host, path |-> path, query |-> query]

\* a URL whose host is an IP address
UIp(scheme, host, path, query) ==
    [scheme |-> scheme, domain |-> FALSE, host |-> host, path |-> path, query |-> query]

\* the value standing for "no URL" in a field of URL type
NoUrl == U("", "", <<>>, NoQuery)

\* form_urlencoded percent-decoding of the raw strings of the model:
\* "%69" is 'i', '+' and "%20" are a space
Decode(raw) ==
    CASE raw = "s%69" -> "si"
      [] raw = "a+b" -> "a b"
      [] raw = "a%20b" -> "a b"
      [] OTHER -> raw

\* form_urlencoded byte serialisation: alphanumerics unchanged, space to '+'
Encode(str) ==
    CASE str = "a b" -> "a+b"
      [] OTHER -> str

RECURSIVE ParsePieces(_)
\* form_urlencoded::parse: pieces split on '&', empty pieces skipped, each
\* piece split on its first '=', name and value decoded
ParsePieces(segs) ==
    IF segs = <<>> THEN <<>>
    ELSE IF Head(segs).k = "" /\ Head(segs).v = "" /\ ~Head(segs).eq
         THEN ParsePieces(Tail(segs))
         ELSE <<[key |-> Decode(Head(segs).k), value |-> Decode(Head(segs).v)]>>
              \o ParsePieces(Tail(segs))

\* Url::query_pairs: the decoded (key, value) pairs; none without a query
query_pairs(url) == IF url.query.some THEN ParsePieces(url.query.segs) ELSE <<>>

\* Serializer::append_pair on the query of url: "&" unless first, then
\* encode(key) "=" encode(value)
append_pair(url, key, value) ==
    [url EXCEPT !.query = Query(url.query.segs \o <<Piece(Encode(key), Encode(value))>>)]

\* Url::query_pairs_mut().clear(): the query becomes the empty string "?"
clear_pairs(url) == [url EXCEPT !.query = Query(<<>>)]

\* Url::set_query(None)
set_query_none(url) == [url EXCEPT !.query = NoQuery]

\* Url::path_segments: None for a cannot-be-a-base URL (mailto:)
HasPathSegments(url) == url.scheme # "mailto"

\* Url::parse on the text of a token: the host is lower-cased and an absent
\* path becomes "/" (one empty segment); the rest is kept as written
Lower(host) ==
    CASE host = "YOUTU.BE" -> "youtu.be"
      [] host = "Example.com" -> "example.com"
      [] OTHER -> host

ParseUrl(raw) ==
    [raw EXCEPT !.host = Lower(raw.host),
                !.path = IF raw.path = <<>> THEN <<"">> ELSE raw.path]

\* ----------------------------------------------------------------- rules

ResolveRedirection == [op |-> "ResolveRedirection", params |-> <<>>]
RemoveSomeParams(params) == [op |-> "RemoveSomeParams", params |-> params]
RemoveAllParams == [op |-> "RemoveAllParams", params |-> <<>>]

\* WashingProgram::remove_some_params
remove_some_params(values) == RemoveSomeParams(values)

\* an element of DirtyUrlRule.path_pattern: Some(segment) or None
Seg(s) == [wild |-> FALSE, seg |-> s]
Wild == [wild |-> TRUE, seg |-> ""]

DirtyUrlRule(name, domains, path_pattern, washing_programs) ==
    [name |-> name, domains |-> domains, path_pattern |-> path_pattern,
     washing_programs |-> washing_programs]

rule_set ==
    << DirtyUrlRule("youtu.be", <<"youtu.be">>, <<>>,
                    <<remove_some_params(<<"si">>)>>),
       DirtyUrlRule("youtube.com & music.youtube.com",
                    <<"youtube.com", "www.youtube.com", "music.youtube.com">>, <<>>,
                    <<remove_some_params(<<"si">>)>>),
       DirtyUrlRule("twitter.com", <<"twitter.com", "x.com">>, <<>>,
                    <<RemoveAllParams>>),
       DirtyUrlRule("vm.tiktok.com", <<"vm.tiktok.com">>, <<>>,
                    <<ResolveRedirection, RemoveAllParams>>),
       DirtyUrlRule("on.soundcloud.com", <<"on.soundcloud.com">>, <<>>,
                    <<ResolveRedirection, RemoveAllParams>>) >>

\* a mutant of matches_domain: a sub-domain of a listed domain matches too
ParentDomain(domain) ==
    CASE domain = "m.youtube.com" -> "youtube.com"
      [] domain = "www.x.com" -> "x.com"
      [] OTHER -> domain

matches_domain_suffix(rule, domain) ==
    \E i \in 1..Len(rule.domains) :
        rule.domains[i] = domain \/ rule.domains[i] = ParentDomain(domain)

\* DirtyUrlRule::matches_domain
matches_domain(rule, domain) ==
    \E i \in 1..Len(rule.domains) : rule.domains[i] = domain

\* DirtyUrlRule::matches_path: zip() stops at the shorter of the path and
\* the pattern
matches_path(rule, url) ==
    IF rule.path_pattern = <<>> THEN TRUE
    ELSE IF ~HasPathSegments(url) THEN FALSE
    ELSE \A i \in 1..Min({Len(url.path), Len(rule.path_pattern)}) :
            rule.path_pattern[i].wild \/ url.path[i] = rule.path_pattern[i].seg

\* a mutant of find_rule: the last matching rule instead of the first
find_last_rule(table, url) ==
    LET hits == {i \in 1..Len(table) :
                    matches_domain(table[i], url.host) /\ matches_path(table[i], url)}
    IN IF hits = {} THEN 0 ELSE Max(hits)

\* rules.iter().find(|rule| rule.matches_domain(domain) && rule.matches_path(url)):
\* the index of the rule found, 0 for None
find_rule(table, url) ==
    LET hits == {i \in 1..Len(table) :
                    matches_domain(table[i], url.host) /\ matches_path(table[i], url)}
    IN IF hits = {} THEN 0 ELSE Min(hits)

\* --------------------------------------------------------------- programs

RECURSIVE AppendPairs(_, _)
\* the loop of remove_query_params: append_pair for each remaining pair
AppendPairs(url, pairs) ==
    IF pairs = <<>> THEN url
    ELSE AppendPairs(append_pair(url, Head(pairs).key, Head(pairs).value), Tail(pairs))

\* a mutant of remove_query_params: the empty query is left as "?"
remove_query_params_keep_empty(url, params) ==
    LET kept == {p \in Range(query_pairs(url)) :
                    \A i \in 1..Len(params) : params[i] # p.key}
    IN AppendPairs(clear_pairs(url), SelectSeqBy(query_pairs(url), kept))

\* remove_query_params
remove_query_params(url, params) ==
    LET kept == {p \in Range(query_pairs(url)) :
                    \A i \in 1..Len(params) : params[i] # p.key}
        debloated_url == AppendPairs(clear_pairs(url), SelectSeqBy(query_pairs(url), kept))
    IN IF debloated_url.query = Query(<<>>)
       THEN set_query_none(debloated_url)
       ELSE debloated_url

\* a mutant of policy_of: the policy is looked up by the rule's domain
policy_by_domain(conf, rule) ==
    IF rule.domains[1] \in DOMAIN conf.redirect_policy
    THEN conf.redirect_policy[rule.domains[1]]
    ELSE "Ignore"

\* a mutant of policy_of: a rule without a configured policy is resolved
\* locally
policy_of_default_locally(conf, rule) ==
    IF rule.name \in DOMAIN conf.redirect_policy
    THEN conf.redirect_policy[rule.name]
    ELSE "Locally"

\* the policy wash() hands to resolve_redirect for a rule:
\* config.redirect_policy.get(&rule.name).unwrap_or(&Ignore)
policy_of(conf, rule) ==
    IF rule.name \in DOMAIN conf.redirect_policy
    THEN conf.redirect_policy[rule.name]
    ELSE "Ignore"

\* ------------------------------------------------------------------ cache

\* a mutant of LruIndex: an entry that is no longer the most recently used
\* one has expired
LruIndex_expiring(c, k) ==
    IF c # <<>> /\ c[1].k = k THEN 1 ELSE 0

\* position of key k in the LRU list c, 0 when absent
LruIndex(c, k) ==
    IF \E i \in 1..Len(c) : c[i].k = k
    THEN CHOOSE i \in 1..Len(c) : c[i].k = k
    ELSE 0

Without(c, i) == SubSeq(c, 1, i - 1) \o SubSeq(c, i + 1, Len(c))

\* a mutant of LruGet: the entry is read without being promoted (peek)
LruGet_peek(c, k) == c

\* LruCache::get: the entry becomes the most recently used
LruGet(c, k) ==
    LET i == LruIndex(c, k)
    IN IF i = 0 THEN c ELSE <<c[i]>> \o Without(c, i)

\* a mutant of LruPut: the entry is stored under the washed URL
LruPut_under_value(c, k, v) ==
    IF \E i \in 1..Len(c) : c[i].k = v
    THEN <<[k |-> v, v |-> v]>> \o SelectSeqBy(c, {e \in Range(c) : e.k # v})
    ELSE <<[k |-> v, v |-> v]>> \o SubSeq(c, 1, Min({Len(c), CacheCap - 1}))

\* a mutant of LruPut: key and value are swapped
LruPut_swapped(c, k, v) ==
    IF \E i \in 1..Len(c) : c[i].k = v
    THEN <<[k |-> v, v |-> k]>> \o SelectSeqBy(c, {e \in Range(c) : e.k # v})
    ELSE <<[k |-> v, v |-> k]>> \o SubSeq(c, 1, Min({Len(c), CacheCap - 1}))

\* LruCache::put: replace the value of k, or insert it and, at capacity,
\* drop the least recently used entry (the last one)
LruPut(c, k, v) ==
    LET i == LruIndex(c, k)
    IN IF i # 0 THEN <<[k |-> k, v |-> v]>> \o Without(c, i)
       ELSE IF Len(c) >= CacheCap
            THEN <<[k |-> k, v |-> v]>> \o SubSeq(c, 1, CacheCap - 1)
            ELSE <<[k |-> k, v |-> v]>> \o c

\* ----------------------------------------------------------------- inputs

Https(host, path, query) == U("https", host, path, query)

TrackedShort == Https("youtu.be", <<"lSwnPoo9ZK0">>, Query(<<Piece("si", "X"), Piece("t", "65")>>))
OnlyTracking == Https("youtu.be", <<"abc">>, Query(<<Piece("si", "X")>>))
Tweet == Https("x.com", <<"sekurak", "status">>, Query(<<Piece("s", "46")>>))
ShortLink == Https("vm.tiktok.com", <<"ZGJoJs8jb", "">>, Query(<<Piece("k", "1")>>))
Unrelated == Https("example.com", <<"unrelated">>, Query(<<Piece("x", "1")>>))
SubDomain == Https("m.youtube.com", <<"watch">>, Query(<<Piece("si", "1")>>))
FtpUrl == U("ftp", "youtu.be", <<"file">>, Query(<<Piece("si", "X")>>))
IpUrl == UIp("https", "127.0.0.1", <<"">>, Query(<<Piece("si", "1")>>))

\* what a redirecting server may name in its Location header, and what a
\* mixer may answer
Video == Https("www.tiktok.com", <<"@u", "video", "1">>, Query(<<Piece("_r", "1")>>))
\* a target that is a short link itself: a GET to it would redirect again
Hop == Https("vm.tiktok.com", <<"next">>, Query(<<Piece("k", "2")>>))
Targets == {Video, Tweet, Hop}

\* the URLs passed to wash() against the program's own rule table
CoreUrls == {TrackedShort, ShortLink, Unrelated, FtpUrl}

\* rule tables other than rule_set() for the same DirtyUrlRule type:
\* overlapping rules, path patterns, rule names that are no domain
OverlapTable ==
    << DirtyUrlRule("first", <<"youtu.be">>, <<>>,
                    <<RemoveSomeParams(<<"t", "a b">>)>>),
       DirtyUrlRule("second", <<"youtu.be", "x.com">>, <<>>,
                    <<RemoveAllParams>>),
       DirtyUrlRule("watch", <<"www.youtube.com">>, <<Seg("watch"), Wild, Seg("v")>>,
                    <<RemoveSomeParams(<<"si">>)>>),
       DirtyUrlRule("any", <<"www.youtube.com">>, <<>>,
                    <<RemoveSomeParams(<<>>)>>),
       DirtyUrlRule("tiktok", <<"vm.tiktok.com">>, <<>>,
                    <<RemoveSomeParams(<<"si">>), ResolveRedirection,
                      RemoveSomeParams(<<"_r">>)>>) >>

Tables == {rule_set, OverlapTable}

Dup == Https("youtu.be", <<"abc">>,
             Query(<<Piece("si", "X"), Piece("t", "65"), Piece("si", "Y"), Piece("t", "66")>>))
Encoded == Https("youtu.be", <<"abc">>,
                 Query(<<Piece("s%69", "X"), Piece("a+b", "1"), Piece("x", "a%20b"),
                         Piece("a%20b", "2")>>))
Odd == Https("youtu.be", <<"abc">>,
             Query(<<EmptyPiece, Bare("t"), Piece("", ""), Bare("si"), EmptyPiece>>))
Plain == Https("youtu.be", <<"abc">>, NoQuery)
EmptyQuery == Https("youtu.be", <<"abc">>, Query(<<>>))
Watch == Https("www.youtube.com", <<"watch", "x", "v">>, Query(<<Piece("si", "1"), Piece("v", "2")>>))
WatchOther == Https("www.youtube.com", <<"watch", "x", "w">>, Query(<<Piece("si", "1")>>))
WatchShort == Https("www.youtube.com", <<"watch">>, Query(<<Piece("si", "1")>>))
Channel == Https("www.youtube.com", <<"channel", "x", "v">>, Query(<<Piece("si", "1")>>))
ShortTracked == Https("vm.tiktok.com", <<"Z">>, Query(<<Piece("si", "1"), Piece("_r", "2")>>))
SubX == Https("www.x.com", <<"">>, Query(<<Piece("s", "1")>>))

\* the URLs passed to wash() by a caller that makes one call at a time:
\* against rule_set(), and against OverlapTable (one of three sets in a run)
SeqUrls == CoreUrls \cup {Tweet, OnlyTracking, SubDomain, IpUrl}

TableUrls ==
    { {Dup, Encoded, Odd, Plain, SubX},
      {EmptyQuery, Watch, WatchOther, WatchShort, Channel},
      {ShortTracked, Tweet, Unrelated, Dup} }

WideUrls == SeqUrls \cup UNION TableUrls

\* UrlWasherConfig values: [mixer_instance (is it set), redirect_policy]
UrlWasherConfig(mixer, policy) == [mixer_instance |-> mixer, redirect_policy |-> policy]

NoPolicy == [n \in {} |-> "Ignore"]

Configs ==
    { UrlWasherConfig(FALSE, [n \in {"vm.tiktok.com", "on.soundcloud.com"} |-> "Locally"]),
      UrlWasherConfig(FALSE, NoPolicy),
      UrlWasherConfig(FALSE, [n \in {"vm.tiktok.com", "tiktok"} |-> "ViaMixer"]),
      UrlWasherConfig(TRUE, [n \in {"vm.tiktok.com", "tiktok", "bogus"} |->
                                IF n = "bogus" THEN "Locally" ELSE "ViaMixer"]),
      UrlWasherConfig(TRUE, [n \in {"vm.tiktok.com", "youtu.be", "tiktok"} |->
                                CASE n = "vm.tiktok.com" -> "Ignore"
                                  [] n = "youtu.be" -> "ViaMixer"
                                  [] OTHER -> "Locally"]) }

\* a mutant of UrlWasherConfig_default: the derived Default, an empty map
UrlWasherConfig_default_derived == UrlWasherConfig(FALSE, NoPolicy)

\* UrlWasherConfig::default(): no mixer instance, and Locally under every
\* domain of every rule that contains ResolveRedirection
UrlWasherConfig_default ==
    UrlWasherConfig(FALSE,
        [d \in UNION { Range(rule_set[j].domains) :
                         j \in {h \in 1..Len(rule_set) :
                                   ResolveRedirection \in Range(rule_set[h].washing_programs)} }
            |-> "Locally"])

\* ------------------------------------------------------------------ texts

\* a token of a text: http = it starts with "http://" or "https://",
\* parses = Url::parse accepts it, url = the URL as written, w = its text
\* otherwise
Word(w) == [http |-> FALSE, parses |-> FALSE, w |-> w, url |-> NoUrl]
UrlToken(raw) == [http |-> TRUE, parses |-> TRUE, w |-> "", url |-> raw]
BadUrl(w) == [http |-> TRUE, parses |-> FALSE, w |-> w, url |-> NoUrl]
\* a URL of another scheme: it parses but does not start with "http"
OtherUrl(raw) == [http |-> FALSE, parses |-> TRUE, w |-> "", url |-> raw]

\* Url::to_string: the serialisation of a Url, as a token
to_string(url) == UrlToken(url)

\* a text is a sequence of units: whitespace characters and tokens
WS(ch) == [ws |-> TRUE, ch |-> ch, tok |-> Word("")]
T(tok) == [ws |-> FALSE, ch |-> "", tok |-> tok]

\* "https://Example.com?x=1": upper case in the host and no path
UnrelatedAsTyped == U("https", "Example.com", <<>>, Query(<<Piece("x", "1")>>))

CoreTexts ==
    { << T(UrlToken(ShortLink)), WS("\n"), WS(" "), T(UrlToken(UnrelatedAsTyped)) >> }

\* mixed separators, a run of two and one at the end
MixedText ==
    << T(Word("see")), WS(" "), T(UrlToken(OnlyTracking)), WS("\t"), WS("\n"),
       T(UrlToken(UnrelatedAsTyped)), WS(" ") >>

\* a separator at the start, a part that starts like a URL but is none, and
\* a link with a tracking parameter after a short link
LeadingText ==
    << WS(" "), T(UrlToken(ShortLink)), WS("\n"), T(BadUrl("https://")),
       WS(" "), T(UrlToken(TrackedShort)) >>

\* no URL that a rule applies to
CleanText ==
    << WS("\n"), WS("\n"), T(Word("see")), WS("\t"), T(UrlToken(UnrelatedAsTyped)),
       WS(" "), T(OtherUrl(FtpUrl)), WS(" ") >>

Texts == CoreTexts \cup {MixedText, LeadingText, CleanText}

RECURSIVE SplitParts_skipping_empty(_, _)
\* a mutant of SplitParts: empty parts are skipped, as split_whitespace does
SplitParts_skipping_empty(text, cur) ==
    IF text = <<>> THEN (IF cur = Word("") THEN <<>> ELSE <<cur>>)
    ELSE IF Head(text).ws
         THEN (IF cur = Word("") THEN <<>> ELSE <<cur>>)
              \o SplitParts_skipping_empty(Tail(text), Word(""))
         ELSE SplitParts_skipping_empty(Tail(text), Head(text).tok)

RECURSIVE SplitParts(_, _)
\* str::split on whitespace: the parts between the separators, an empty
\* part where two separators touch or the text starts or ends with one;
\* cur is the part being read
SplitParts(text, cur) ==
    IF text = <<>> THEN <<cur>>
    ELSE IF Head(text).ws
         THEN <<cur>> \o SplitParts(Tail(text), Word(""))
         ELSE SplitParts(Tail(text), Head(text).tok)

\* the separators the split closure pushes to original_separators
Separators(text) == SelectSeqBy(text, {u \in Range(text) : u.ws})

RECURSIVE Patch(_, _, _)
\* the reassembly loop: each part's result, then the separator of the same
\* index if there is one; pushing an empty string adds nothing
Patch(outs, seps, index) ==
    IF index > Len(outs) THEN <<>>
    ELSE (IF outs[index] = Word("") THEN <<>> ELSE <<T(outs[index])>>)
         \o (IF index <= Len(seps) THEN <<seps[index]>> ELSE <<>>)
         \o Patch(outs, seps, index + 1)

\* -------------------------------------------------------------- responses

\* a header value or a body: absent, bytes that are no text, or text
NoValue == [kind |-> "none", text |-> Word("")]
Opaque == [kind |-> "opaque", text |-> Word("")]
Text(tok) == [kind |-> "text", text |-> tok]

\* what send() gives: sent = FALSE when it fails, else the response's
\* status, its Location header and its body
Response(sent, status, location, body) ==
    [sent |-> sent, status |-> status, location |-> location, body |-> body]

NoResponse == Response(FALSE, 0, NoValue, NoValue)

\* the first response to the GET of line 171; the client follows no redirect
\* (Policy::none(), line 85), so this is the response resolve_redirect reads
LocallyResponses ==
    { NoResponse,
      Response(TRUE, 200, NoValue, Text(Word("page"))),
      Response(TRUE, 302, Opaque, NoValue),
      Response(TRUE, 302, Text(Word("/video/1")), NoValue) }
    \cup { Response(TRUE, 302, Text(UrlToken(t)), NoValue) : t \in Targets }

\* the mixer's response to the GET of lines 186-190
MixerResponses ==
    { NoResponse,
      Response(TRUE, 500, NoValue, Text(Word("internal server error"))),
      Response(TRUE, 200, NoValue, Opaque),
      Response(TRUE, 200, NoValue, Text(Word("oops"))) }
    \cup { Response(TRUE, 200, NoValue, Text(UrlToken(t))) : t \in Targets }

Responses(policy) == IF policy = "Locally" THEN LocallyResponses ELSE MixerResponses

\* ------------------------------------------------------------ call state

Pending == [kind |-> "pending", url |-> NoUrl, err |-> ""]
OkNone == [kind |-> "none", url |-> NoUrl, err |-> ""]
OkSome(url) == [kind |-> "some", url |-> url, err |-> ""]
Err(msg) == [kind |-> "err", url |-> NoUrl, err |-> msg]

\* resolve_redirect lines 170-198 from the response on: Ok(Ok(url)) or the
\* error of the first step that fails
resolve_redirect(policy, resp) ==
    IF policy = "Locally"
    THEN IF ~resp.sent THEN Err("send")
         ELSE IF resp.location.kind = "none" THEN Err("missing location header")
         ELSE IF resp.location.kind = "opaque" THEN Err("invalid location header")
         ELSE IF ~resp.location.text.parses THEN Err("parse location url")
         ELSE OkSome(ParseUrl(resp.location.text.url))
    ELSE IF ~resp.sent THEN Err("send mixer requewst")
         ELSE IF resp.status < 200 \/ resp.status > 299
              THEN Err("Invalid mixer response status")
         ELSE IF resp.body.kind # "text" THEN Err("read mixer response url")
         ELSE IF ~resp.body.text.parses THEN Err("parse mixer response url")
         ELSE OkSome(ParseUrl(resp.body.text.url))

NotSeen == [looked |-> FALSE, some |-> FALSE, url |-> NoUrl]
\* no request sent: [to |-> "", url |-> NoUrl]; to is "url" (the GET goes to
\* url itself) or "mixer" (to the mixer's /wash with url as parameter)
NoRequest == [to |-> "", url |-> NoUrl]
NoPrev == [called |-> FALSE, result |-> Pending, reqs |-> 0]

\* pc: "idle", "get_lock" (waiting for the lock of line 96), "get_locked",
\*     "program" (at the head of the loop of line 113), "awaiting" (a request
\*     is in flight), "put_locked" (line 140, lock held), "done"
\* url, laundry, rule (index in the table, 0 = none looked up), prog (index
\* of the next washing program), policy, result: the locals of wash()
\* owner: "direct" or "text" (called by TextWasher.wash)
\* saw, reqs, puts, trace, first: what the call has done so far
\*   saw   the cache lookup of line 96 and what it found
\*   reqs  requests sent; puts  cache stores
\*   sent  the last request sent; resp  the response to it
\*   evicted  the key of the entry that the store of this call pushed out
\*   rewash  when the URL of this call is the washed URL an earlier call
\*         returned to the same caller: that call's result
\*   trace the programs run: [op, params, before, after]
\*   first the call the same caller made just before with the same URL, if
\*         it did: [called, result, reqs]
IdleCall ==
    [pc |-> "idle", owner |-> "direct", url |-> NoUrl, laundry |-> NoUrl, rule |-> 0,
     prog |-> 0, policy |-> "", result |-> Pending, saw |-> NotSeen, reqs |-> 0,
     puts |-> 0, trace |-> <<>>, first |-> NoPrev, sent |-> NoRequest,
     resp |-> NoResponse, rewash |-> Pending, evicted |-> NoUrl]

IdleText ==
    [pc |-> "idle", text |-> <<>>, parts |-> <<>>, seps |-> <<>>, index |-> 0,
     outs |-> <<>>, c |-> 0, patched |-> <<>>]

\* the mixer's handler: pc is "idle", "washing" (wash() is being awaited,
\* c its call) or "answered"; query is the url parameter of the request,
\* status and body are the response
IdleMixer ==
    [pc |-> "idle", query |-> NoValue, c |-> 0, status |-> 0, body |-> Word("")]

\* the url parameters of the requests to the mixer: absent, or some text
MixerQueries ==
    { NoValue, Text(Word("nope")), Text(UrlToken(TrackedShort)),
      Text(UrlToken(ShortLink)), Text(UrlToken(UnrelatedAsTyped)) }

Active == {c \in Calls : call[c].pc # "idle"}

\* the callers at work: the wash() calls made directly and the text washer
Callers ==
    Cardinality({c \in Active : call[c].owner = "direct"})
    + (IF tw.pc = "idle" THEN 0 ELSE 1)
    + (IF mx.pc = "idle" THEN 0 ELSE 1)

\* the call slot a new call takes
FreeSlot(c) == c = Min({d \in Calls : call[d].pc = "idle"})

Finish(rec, result) == [rec EXCEPT !.pc = "done", !.result = result]

Programs(c) == rules[call[c].rule].washing_programs

\* a mutant of Begin: the scheme is not looked at
Begin_any_scheme(url, owner, first) ==
    [IdleCall EXCEPT !.owner = owner, !.url = url, !.first = first, !.pc = "get_lock"]

\* lines 92-95: a call begins; any scheme but http and https returns None
Begin(url, owner, first) ==
    LET rec == [IdleCall EXCEPT !.owner = owner, !.url = url, !.first = first]
    IN IF url.scheme # "http" /\ url.scheme # "https"
       THEN Finish(rec, OkNone)
       ELSE [rec EXCEPT !.pc = "get_lock"]

\* ---------------------------------------------------- desktop app state

\* main.rs line 37, in seconds
CLIPBOARD_PAUSE_DURATION == 30
\* the seconds that pass in one step of the clock
TickSecs == 15
\* the modify_config calls of a run
MaxEdits == 2

\* Option<Instant> as the time left until the instant (0 once it is past)
NotPaused == [some |-> FALSE, left |-> 0]
PausedFor(left) == [some |-> TRUE, left |-> left]

\* config.rs lines 12-20
AppConfig(url_washer, enable, paused_until) ==
    [url_washer |-> url_washer, enable_clipboard_patcher |-> enable,
     clipboard_patcher_paused_until |-> paused_until]

\* config.rs lines 22-30
AppConfig_default == AppConfig(UrlWasherConfig_default, TRUE, NotPaused)

\* what ConfigWindow hands to apply_ui_config (gui.rs lines 31-39)
UiConfigState(url_washer, enable) == [url_washer |-> url_washer, enable |-> enable]

\* a mutant of AppState_new: the new state works on the cache in use
AppState_new_keeping_cache(cfg) ==
    [config |-> cfg, washer |-> [config |-> cfg.url_washer, cache |-> cache]]

\* AppState::new (main.rs lines 45-55): the config and a UrlWasher built
\* from its url_washer part, with a cache of its own
AppState_new(cfg) ==
    [config |-> cfg, washer |-> [config |-> cfg.url_washer, cache |-> <<>>]]

\* the watch channel, as main() sets it up (main.rs lines 124-127): state is
\* the value sent last, seen whether each receiver has taken it; edits
\* counts the modify_config calls and event names the last one
AppStateFlow_new(cfg) ==
    [state |-> AppState_new(cfg), seen |-> [jobs |-> FALSE, persist |-> TRUE],
     edits |-> 0, event |-> ""]

\* the supervisor's job: pc is "start" (nothing runs yet), "off" (no task,
\* pending forever), "paused" (sleep_until), "polling" (inside
\* ClipboardPoller::poll), "washing" (TextWasher::wash is awaited),
\* "restart" (the 5 s sleep after an error); enable and left are of the
\* AppState it runs against; last_text is the poller's, dirty the text
\* polled last; outcome tells what line 201-209 did with the last washed
\* text; own is TRUE while the clipboard holds what this poller wrote;
\* dropped is the cache of the UrlWasher that the job before this one
\* used, until this job has washed its first text
NoJob ==
    [pc |-> "start", enable |-> FALSE, left |-> 0, last_text |-> <<>>, dirty |-> <<>>,
     outcome |-> "", own |-> FALSE, dropped |-> <<>>]

\* the clipboard: its text and who wrote it, "user" or "patcher"
Clipboard(text, by) == [text |-> text, by |-> by]

\* persist_config: pc is "waiting" (changed().await), "saving" (the write
\* of pending is in flight) or "throttle" (the 1 s sleep); file is what
\* config.json holds, failed whether the last save failed
NoFile == [written |-> FALSE, config |-> AppConfig_default]

\* the washer and the mixer run without the desktop app
NoDesktop ==
    /\ app = AppStateFlow_new(AppConfig_default)
    /\ job = NoJob
    /\ clip = Clipboard(<<>>, "user")
    /\ disk = [pc |-> "waiting", pending |-> NoFile, file |-> NoFile, failed |-> FALSE]

Init ==
    /\ rules = rule_set
    /\ env = [urls |-> CoreUrls, texts |-> CoreTexts, parallel |-> NCalls]
    /\ config \in Configs
    /\ cache = <<>>
    /\ lock = 0
    /\ call = [c \in Calls |-> IdleCall]
    /\ tw = IdleText
    /\ mx = IdleMixer
    /\ NoDesktop

\* the runs of a caller that makes one call at a time: the rule table, the
\* URLs and texts the caller passes, and the configurations of the washer
Scenario(table, urls, texts, configs) ==
    [rules |-> table, urls |-> urls, texts |-> texts, configs |-> configs]

Scenarios ==
    { Scenario(rule_set, CoreUrls, CoreTexts, Configs),
      Scenario(rule_set, SeqUrls \ CoreUrls, {MixedText, LeadingText, CleanText}, Configs),
      Scenario(OverlapTable, {Dup, Encoded, Odd, Plain, SubX}, {},
               {UrlWasherConfig_default}),
      Scenario(OverlapTable, {EmptyQuery, Watch, WatchOther, WatchShort, Channel}, {},
               {UrlWasherConfig_default}),
      Scenario(OverlapTable, {ShortTracked, Tweet, Unrelated, Dup}, CoreTexts, Configs) }

\* one caller at a time, against any of the rule tables
InitTables ==
    /\ \E s \in Scenarios :
          /\ rules = s.rules
          /\ env = [urls |-> s.urls, texts |-> s.texts, parallel |-> 1]
          /\ config \in s.configs
    /\ cache = <<>>
    /\ lock = 0
    /\ call = [c \in Calls |-> IdleCall]
    /\ tw = IdleText
    /\ mx = IdleMixer
    /\ NoDesktop

\* what wash(), the text washer and the mixer's handler leave alone
fixed == <<rules, env, config, app, job, clip, disk>>

\* ------------------------------------------------------- UrlWasher::wash

\* a caller passes url to wash()
StartWash(c, url) ==
    /\ call[c].pc = "idle"
    /\ FreeSlot(c)
    /\ Callers < env.parallel
    /\ url \in env.urls
    /\ call' = [call EXCEPT ![c] = Begin(url, "direct", NoPrev)]
    /\ UNCHANGED <<fixed, cache, lock, tw, mx>>

\* line 96: self.cache.lock().await completes
GetAcquire(c) ==
    /\ call[c].pc = "get_lock"
    /\ lock = 0
    /\ lock' = c
    /\ call' = [call EXCEPT ![c].pc = "get_locked"]
    /\ UNCHANGED <<fixed, cache, tw, mx>>

\* what a lookup of url in the cache finds
Lookup(url) ==
    IF \E e \in Range(cache) : e.k = url
    THEN [looked |-> TRUE, some |-> TRUE, url |-> (CHOOSE e \in Range(cache) : e.k = url).v]
    ELSE [looked |-> TRUE, some |-> FALSE, url |-> NoUrl]

\* lines 96-99: get() finds the URL; the cached value is returned
CacheHit(c) ==
    /\ call[c].pc = "get_locked"
    /\ LruIndex(cache, call[c].url) # 0
    /\ cache' = LruGet(cache, call[c].url)
    /\ lock' = 0
    /\ call' = [call EXCEPT ![c] =
                  Finish([@ EXCEPT !.saw = Lookup(call[c].url)],
                         OkSome(cache[LruIndex(cache, call[c].url)].v))]
    /\ UNCHANGED <<fixed, tw, mx>>

\* a mutant of CacheMiss: the guard of the lookup lives on after a miss
CacheMiss_keeping_lock(c) ==
    /\ call[c].pc = "get_locked"
    /\ LruIndex(cache, call[c].url) = 0
    /\ LET url == call[c].url
           rec == [call[c] EXCEPT !.saw = Lookup(url)]
           r == find_rule(rules, url)
       IN call' = [call EXCEPT ![c] =
                     IF ~url.domain THEN Finish(rec, OkNone)
                     ELSE IF r = 0 THEN Finish(rec, OkNone)
                     ELSE [rec EXCEPT !.pc = "program", !.rule = r, !.laundry = url,
                                     !.prog = 1]]
    /\ UNCHANGED <<fixed, cache, lock, tw, mx>>

\* lines 96-112: get() finds nothing; the domain and the rule are looked up
CacheMiss(c) ==
    /\ call[c].pc = "get_locked"
    /\ LruIndex(cache, call[c].url) = 0
    /\ lock' = 0
    /\ LET url == call[c].url
           rec == [call[c] EXCEPT !.saw = Lookup(url)]
           r == find_rule(rules, url)
       IN call' = [call EXCEPT ![c] =
                     IF ~url.domain THEN Finish(rec, OkNone)
                     ELSE IF r = 0 THEN Finish(rec, OkNone)
                     ELSE [rec EXCEPT !.pc = "program", !.rule = r, !.laundry = url,
                                     !.prog = 1]]
    /\ UNCHANGED <<fixed, cache, tw, mx>>

AtProgram(c, op) ==
    /\ call[c].pc = "program"
    /\ call[c].prog <= Len(Programs(c))
    /\ Programs(c)[call[c].prog].op = op

\* the call after its current program turned laundry into url
Ran(c, url) ==
    [call[c] EXCEPT !.laundry = url, !.prog = @ + 1, !.pc = "program",
                    !.trace = Append(@, [op |-> Programs(c)[call[c].prog].op,
                                         params |-> Programs(c)[call[c].prog].params,
                                         before |-> call[c].laundry,
                                         after |-> url])]

\* line 133
RunRemoveSomeParams(c) ==
    /\ AtProgram(c, "RemoveSomeParams")
    /\ call' = [call EXCEPT ![c] =
                  Ran(c, remove_query_params(call[c].laundry,
                                             Programs(c)[call[c].prog].params))]
    /\ UNCHANGED <<fixed, cache, lock, tw, mx>>

\* lines 134-137
RunRemoveAllParams(c) ==
    /\ AtProgram(c, "RemoveAllParams")
    /\ call' = [call EXCEPT ![c] = Ran(c, set_query_none(call[c].laundry))]
    /\ UNCHANGED <<fixed, cache, lock, tw, mx>>

\* a mutant of ResolveIgnore: an unresolved redirect ends the wash with None
ResolveIgnore_giving_up(c) ==
    /\ AtProgram(c, "ResolveRedirection")
    /\ policy_of(config, rules[call[c].rule]) = "Ignore"
    /\ call' = [call EXCEPT ![c] = Finish([@ EXCEPT !.policy = "Ignore"], OkNone)]
    /\ UNCHANGED <<fixed, cache, lock, tw, mx>>

\* lines 115-131 with resolve_redirect line 169: Ok(Err(url)), the URL is
\* handed on as it is
ResolveIgnore(c) ==
    /\ AtProgram(c, "ResolveRedirection")
    /\ policy_of(config, rules[call[c].rule]) = "Ignore"
    /\ call' = [call EXCEPT ![c] = [Ran(c, call[c].laundry) EXCEPT !.policy = "Ignore"]]
    /\ UNCHANGED <<fixed, cache, lock, tw, mx>>

\* a mutant of ResolveMixerUndefined: without a mixer instance the URL is
\* handed on unresolved
ResolveMixerUndefined_passing(c) ==
    /\ AtProgram(c, "ResolveRedirection")
    /\ policy_of(config, rules[call[c].rule]) = "ViaMixer"
    /\ ~config.mixer_instance
    /\ call' = [call EXCEPT ![c] = [Ran(c, call[c].laundry) EXCEPT !.policy = "ViaMixer"]]
    /\ UNCHANGED <<fixed, cache, lock, tw, mx>>

\* resolve_redirect lines 180-183: ViaMixer without a mixer instance
ResolveMixerUndefined(c) ==
    /\ AtProgram(c, "ResolveRedirection")
    /\ policy_of(config, rules[call[c].rule]) = "ViaMixer"
    /\ ~config.mixer_instance
    /\ call' = [call EXCEPT ![c] =
                  Finish([@ EXCEPT !.policy = "ViaMixer"], Err("undefined mixer instance"))]
    /\ UNCHANGED <<fixed, cache, lock, tw, mx>>

\* resolve_redirect lines 171 and 186-190: the GET is sent
SendRequest(c) ==
    /\ AtProgram(c, "ResolveRedirection")
    /\ \/ policy_of(config, rules[call[c].rule]) = "Locally"
       \/ /\ policy_of(config, rules[call[c].rule]) = "ViaMixer"
          /\ config.mixer_instance
    /\ call' = [call EXCEPT ![c].pc = "awaiting", ![c].reqs = @ + 1,
                            ![c].policy = policy_of(config, rules[call[c].rule]),
                            ![c].sent =
                                [to |-> IF policy_of(config, rules[call[c].rule]) = "Locally"
                                        THEN "url" ELSE "mixer",
                                 url |-> call[c].laundry]]
    /\ UNCHANGED <<fixed, cache, lock, tw, mx>>

\* the ways the answer to a request makes resolve_redirect fail
Failures(policy) ==
    IF policy = "Locally"
    THEN {"send", "missing location header", "invalid location header",
          "parse location url"}
    ELSE {"send mixer requewst", "Invalid mixer response status",
          "read mixer response url", "parse mixer response url"}

\* a mutant of ResponseError: the URL washed so far is stored before the
\* error is returned
ResponseError_storing(c, msg) ==
    /\ call[c].pc = "awaiting"
    /\ msg \in Failures(call[c].policy)
    /\ cache' = LruPut(cache, call[c].url, call[c].laundry)
    /\ call' = [call EXCEPT ![c] = Finish(@, Err(msg))]
    /\ UNCHANGED <<fixed, lock, tw, mx>>

\* resolve_redirect lines 171-178, 191-196 and wash line 130
ResponseError(c, msg) ==
    /\ call[c].pc = "awaiting"
    /\ msg \in Failures(call[c].policy)
    /\ \E resp \in Responses(call[c].policy) :
          /\ resolve_redirect(call[c].policy, resp) = Err(msg)
          /\ call' = [call EXCEPT ![c] = Finish([@ EXCEPT !.resp = resp], Err(msg))]
    /\ UNCHANGED <<fixed, cache, lock, tw, mx>>

\* a mutant of ResponseTarget: the client follows the redirect when the
\* target redirects again
ResponseTarget_following(c, target) ==
    /\ call[c].pc = "awaiting"
    /\ target \in Targets
    /\ \E resp \in Responses(call[c].policy) :
          /\ resolve_redirect(call[c].policy, resp) = OkSome(target)
          /\ call' = [call EXCEPT ![c] =
                        IF target.host = "vm.tiktok.com" /\ call[c].reqs < 2
                        THEN [@ EXCEPT !.reqs = @ + 1,
                                       !.sent = [to |-> "url", url |-> target]]
                        ELSE [Ran(c, target) EXCEPT !.resp = resp]]
    /\ UNCHANGED <<fixed, cache, lock, tw, mx>>

\* resolve_redirect lines 178 and 195-197: Ok(Ok(url)), the Location header
\* or the mixer's answer
ResponseTarget(c, target) ==
    /\ call[c].pc = "awaiting"
    /\ target \in Targets
    /\ \E resp \in Responses(call[c].policy) :
          /\ resolve_redirect(call[c].policy, resp) = OkSome(target)
          /\ call' = [call EXCEPT ![c] = [Ran(c, target) EXCEPT !.resp = resp]]
    /\ UNCHANGED <<fixed, cache, lock, tw, mx>>

\* a mutant of PutAcquire: the result is stored after the first program
PutAcquire_after_first(c) ==
    /\ call[c].pc = "program"
    /\ call[c].prog > 1
    /\ lock = 0
    /\ lock' = c
    /\ call' = [call EXCEPT ![c].pc = "put_locked"]
    /\ UNCHANGED <<fixed, cache, tw, mx>>

\* line 140: the loop is over and self.cache.lock().await completes
PutAcquire(c) ==
    /\ call[c].pc = "program"
    /\ call[c].prog > Len(Programs(c))
    /\ lock = 0
    /\ lock' = c
    /\ call' = [call EXCEPT ![c].pc = "put_locked"]
    /\ UNCHANGED <<fixed, cache, tw, mx>>

\* a mutant of CachePut: a result that another call stored meanwhile is kept
CachePut_keeping_first(c) ==
    /\ call[c].pc = "put_locked"
    /\ cache' = IF LruIndex(cache, call[c].url) # 0
                THEN cache
                ELSE LruPut(cache, call[c].url, call[c].laundry)
    /\ lock' = 0
    /\ call' = [call EXCEPT ![c] =
                  Finish([@ EXCEPT !.puts = @ + 1], OkSome(call[c].laundry))]
    /\ UNCHANGED <<fixed, tw, mx>>

\* lines 140-141: put() and Ok(Some(laundry))
CachePut(c) ==
    /\ call[c].pc = "put_locked"
    /\ cache' = LruPut(cache, call[c].url, call[c].laundry)
    /\ lock' = 0
    /\ call' = [call EXCEPT ![c] =
                  Finish([@ EXCEPT !.puts = @ + 1,
                                   !.evicted =
                                       IF LruIndex(cache, call[c].url) = 0
                                          /\ Len(cache) >= CacheCap
                                       THEN cache[Len(cache)].k
                                       ELSE NoUrl],
                         OkSome(call[c].laundry))]
    /\ UNCHANGED <<fixed, tw, mx>>

\* the caller takes the result
Return(c) ==
    /\ call[c].pc = "done"
    /\ call[c].owner = "direct"
    /\ call' = [call EXCEPT ![c] = IdleCall]
    /\ UNCHANGED <<fixed, cache, lock, tw, mx>>

\* the caller takes the result and passes the same URL to wash() again
WashAgain(c) ==
    /\ call[c].pc = "done"
    /\ call[c].owner = "direct"
    /\ call' = [call EXCEPT ![c] =
                  Begin(call[c].url, "direct",
                        [called |-> TRUE, result |-> call[c].result, reqs |-> call[c].reqs])]
    /\ UNCHANGED <<fixed, cache, lock, tw, mx>>

\* the caller takes the washed URL and passes it to wash()
WashResult(c) ==
    /\ call[c].pc = "done"
    /\ call[c].owner = "direct"
    /\ call[c].result.kind = "some"
    /\ call' = [call EXCEPT ![c] =
                  [Begin(call[c].result.url, "direct", NoPrev)
                      EXCEPT !.rewash = call[c].result]]
    /\ UNCHANGED <<fixed, cache, lock, tw, mx>>

\* ------------------------------------------------------ TextWasher::wash

\* lines 13-40: the split and the (not yet polled) futures of the parts
TextStart(text) ==
    /\ tw.pc = "idle"
    /\ Callers < env.parallel
    /\ text \in env.texts
    /\ tw' = [IdleText EXCEPT !.pc = "running", !.text = text,
                              !.parts = SplitParts(text, Word("")),
                              !.seps = Separators(text), !.index = 1]
    /\ UNCHANGED <<fixed, cache, lock, call, mx>>

IsUrlPart(part) == part.http /\ part.parses

\* lines 23-29 under line 43: a part that is no http(s) URL is kept
TextKeep ==
    /\ tw.pc = "running"
    /\ tw.c = 0
    /\ tw.index <= Len(tw.parts)
    /\ ~IsUrlPart(tw.parts[tw.index])
    /\ tw' = [tw EXCEPT !.outs = Append(@, tw.parts[tw.index]), !.index = @ + 1]
    /\ UNCHANGED <<fixed, cache, lock, call, mx>>

\* lines 26-31 under line 43: the part's future is polled and calls wash()
TextWash(c) ==
    /\ tw.pc = "running"
    /\ tw.c = 0
    /\ tw.index <= Len(tw.parts)
    /\ IsUrlPart(tw.parts[tw.index])
    /\ call[c].pc = "idle"
    /\ FreeSlot(c)
    /\ call' = [call EXCEPT ![c] = Begin(ParseUrl(tw.parts[tw.index].url), "text", NoPrev)]
    /\ tw' = [tw EXCEPT !.c = c]
    /\ UNCHANGED <<fixed, cache, lock, mx>>

\* a mutant of part_result: a part without a rule is re-serialised
part_result_reserialised(part, url, result) ==
    IF result.kind = "some" THEN to_string(result.url) ELSE to_string(url)

\* lines 31-38: what the future of a part returns for wash()'s result
part_result(part, url, result) ==
    IF result.kind = "some" THEN to_string(result.url) ELSE part

\* a mutant of TextWashed: an error of wash() ends the text wash
TextWashed_failing ==
    /\ tw.pc = "running"
    /\ tw.c # 0
    /\ call[tw.c].pc = "done"
    /\ tw' = IF call[tw.c].result.kind = "err"
             THEN [tw EXCEPT !.pc = "done", !.c = 0]
             ELSE [tw EXCEPT !.outs = Append(@, part_result(tw.parts[tw.index],
                                                            call[tw.c].url,
                                                            call[tw.c].result)),
                             !.index = @ + 1, !.c = 0]
    /\ call' = [call EXCEPT ![tw.c] = IdleCall]
    /\ UNCHANGED <<fixed, cache, lock, mx>>

\* lines 31-38 and 43-46: wash() has returned to the part's future
TextWashed ==
    /\ tw.pc = "running"
    /\ tw.c # 0
    /\ call[tw.c].pc = "done"
    /\ tw' = [tw EXCEPT !.outs = Append(@, part_result(tw.parts[tw.index],
                                                       call[tw.c].url,
                                                       call[tw.c].result)),
                        !.index = @ + 1, !.c = 0]
    /\ call' = [call EXCEPT ![tw.c] = IdleCall]
    /\ UNCHANGED <<fixed, cache, lock, mx>>

\* line 48: the patched text is returned
TextFinish ==
    /\ tw.pc = "running"
    /\ tw.index > Len(tw.parts)
    /\ tw' = [tw EXCEPT !.pc = "done", !.patched = Patch(tw.outs, tw.seps, 1)]
    /\ UNCHANGED <<fixed, cache, lock, call, mx>>

TextReturn ==
    /\ tw.pc = "done"
    /\ tw' = IdleText
    /\ UNCHANGED <<fixed, cache, lock, call, mx>>

\* ------------------------------------------------------- mixer: GET /wash

\* the response of the handler or of a layer around it
Answered(query, status, body) ==
    [pc |-> "answered", query |-> query, c |-> 0, status |-> status, body |-> body]

\* the mixer serves requests with UrlWasher::default() (main.rs line 46)
MixerRuns == rules = rule_set /\ config = UrlWasherConfig_default

\* main.rs lines 55-66 and 88-90: the rate limiter turns the request down
MixerLimited(query) ==
    /\ MixerRuns
    /\ mx.pc = "idle"
    /\ Callers < env.parallel
    /\ mx' = Answered(query, 429, Word(""))
    /\ UNCHANGED <<fixed, cache, lock, call, tw>>

\* main.rs lines 79-82 and error.rs line 23: no url parameter (the Query
\* extractor rejects the request), or one that Url::parse does not accept
MixerInvalidUrl(query) ==
    /\ MixerRuns
    /\ mx.pc = "idle"
    /\ Callers < env.parallel
    /\ \/ /\ query.kind # "text"
          /\ mx' = Answered(query, 400, Word("Failed to deserialize query string"))
       \/ /\ query.kind = "text"
          /\ ~query.text.parses
          /\ mx' = Answered(query, 400, Word("invalid url"))
    /\ UNCHANGED <<fixed, cache, lock, call, tw>>

\* main.rs lines 82-83: the parameter parses and wash() is called
MixerWash(c, query) ==
    /\ MixerRuns
    /\ mx.pc = "idle"
    /\ Callers < env.parallel
    /\ query.kind = "text"
    /\ query.text.parses
    /\ call[c].pc = "idle"
    /\ FreeSlot(c)
    /\ call' = [call EXCEPT ![c] = Begin(ParseUrl(query.text.url), "mixer", NoPrev)]
    /\ mx' = [IdleMixer EXCEPT !.pc = "washing", !.query = query, !.c = c]
    /\ UNCHANGED <<fixed, cache, lock, tw>>

\* a mutant of MixerAnswer: the body of a 500 is the error's text
MixerAnswer_leaking ==
    /\ mx.pc = "washing"
    /\ call[mx.c].pc = "done"
    /\ LET result == call[mx.c].result IN
       mx' = CASE result.kind = "err" -> Answered(mx.query, 500, Word(result.err))
               [] result.kind = "some" -> Answered(mx.query, 200, to_string(result.url))
               [] OTHER -> Answered(mx.query, 200, to_string(call[mx.c].url))
    /\ call' = [call EXCEPT ![mx.c] = IdleCall]
    /\ UNCHANGED <<fixed, cache, lock, tw>>

\* main.rs lines 83-84 and error.rs lines 24-27: wash() has returned
MixerAnswer ==
    /\ mx.pc = "washing"
    /\ call[mx.c].pc = "done"
    /\ LET result == call[mx.c].result IN
       mx' = CASE result.kind = "err" ->
                    Answered(mx.query, 500, Word("internal server error"))
               [] result.kind = "some" -> Answered(mx.query, 200, to_string(result.url))
               [] OTHER -> Answered(mx.query, 200, to_string(call[mx.c].url))
    /\ call' = [call EXCEPT ![mx.c] = IdleCall]
    /\ UNCHANGED <<fixed, cache, lock, tw>>

\* a mutant of Suspended: put() is an await point too
Suspended_while_locked(c) ==
    \/ call[c].pc \in {"get_lock", "awaiting", "put_locked"}
    \/ call[c].pc = "program" /\ call[c].prog > Len(Programs(c))

\* the places where wash() is suspended: waiting for the lock of line 96 or
\* of line 140, or for the response to its request
Suspended(c) ==
    \/ call[c].pc \in {"get_lock", "awaiting"}
    \/ call[c].pc = "program" /\ call[c].prog > Len(Programs(c))

\* main.rs lines 53-54 and 91-93: the 10 s timeout drops the handler's
\* future, wash() with it, and the error layer answers
MixerTimeout ==
    /\ mx.pc = "washing"
    /\ Suspended(mx.c)
    /\ mx' = Answered(mx.query, 500, Word(""))
    /\ call' = [call EXCEPT ![mx.c] = IdleCall]
    /\ UNCHANGED <<fixed, cache, lock, tw>>

\* the client has the response
MixerReturn ==
    /\ mx.pc = "answered"
    /\ mx' = IdleMixer
    /\ UNCHANGED <<fixed, cache, lock, call, tw>>

Next ==
    \/ \E c \in Calls, url \in WideUrls : StartWash(c, url)
    \/ \E c \in Calls : GetAcquire(c)
    \/ \E c \in Calls : CacheHit(c)
    \/ \E c \in Calls : CacheMiss(c)
    \/ \E c \in Calls : RunRemoveSomeParams(c)
    \/ \E c \in Calls : RunRemoveAllParams(c)
    \/ \E c \in Calls : ResolveIgnore(c)
    \/ \E c \in Calls : ResolveMixerUndefined(c)
    \/ \E c \in Calls : SendRequest(c)
    \/ \E c \in Calls, msg \in Failures("Locally") \cup Failures("ViaMixer") :
          ResponseError(c, msg)
    \/ \E c \in Calls, target \in Targets : ResponseTarget(c, target)
    \/ \E c \in Calls : PutAcquire(c)
    \/ \E c \in Calls : CachePut(c)
    \/ \E c \in Calls : Return(c)
    \/ \E c \in Calls : WashAgain(c)
    \/ \E c \in Calls : WashResult(c)
    \/ \E text \in Texts : TextStart(text)
    \/ TextKeep
    \/ \E c \in Calls : TextWash(c)
    \/ TextWashed
    \/ TextFinish
    \/ TextReturn
    \/ \E query \in MixerQueries : MixerLimited(query)
    \/ \E query \in MixerQueries : MixerInvalidUrl(query)
    \/ \E c \in Calls, query \in MixerQueries : MixerWash(c, query)
    \/ MixerAnswer
    \/ MixerTimeout
    \/ MixerReturn

Spec == Init /\ [][Next]_vars

SpecTables == InitTables /\ [][Next]_vars

\* ----------------------------------------- callers that share a UrlWasher

\* the caller drops the future of wash() at one of its await points, as the
\* select! of desktop/src/main.rs lines 153-160 and the mixer's timeout do
Cancel(c) ==
    /\ call[c].owner = "direct"
    /\ Suspended(c)
    /\ call' = [call EXCEPT ![c].pc = "cancelled"]
    /\ UNCHANGED <<fixed, cache, lock, tw, mx>>

\* after dropping a call the caller passes the same URL to wash() again
Retry(c) ==
    /\ call[c].pc = "cancelled"
    /\ call' = [call EXCEPT ![c] =
                  Begin(call[c].url, "direct",
                        [called |-> TRUE, result |-> Pending, reqs |-> call[c].reqs])]
    /\ UNCHANGED <<fixed, cache, lock, tw, mx>>

\* the runs of callers that work at the same time: the URLs they pass and
\* the configuration of the washer they share
SharedRuns ==
    { [urls |-> {ShortLink}, config |-> UrlWasherConfig_default],
      [urls |-> {ShortLink, TrackedShort}, config |-> UrlWasherConfig(FALSE, NoPolicy)],
      [urls |-> {ShortLink},
       config |-> UrlWasherConfig(FALSE, [n \in {"vm.tiktok.com"} |-> "ViaMixer"])] }

\* several callers of wash() on one UrlWasher: the tasks of the desktop app
\* that hold the same AppState, the requests the mixer serves
InitShared ==
    /\ rules = rule_set
    /\ \E r \in SharedRuns :
          /\ env = [urls |-> r.urls, texts |-> {}, parallel |-> NCalls]
          /\ config = r.config
    /\ cache = <<>>
    /\ lock = 0
    /\ call = [c \in Calls |-> IdleCall]
    /\ tw = IdleText
    /\ mx = IdleMixer
    /\ NoDesktop

NextShared ==
    \/ \E c \in Calls, url \in CoreUrls : StartWash(c, url)
    \/ \E c \in Calls : GetAcquire(c)
    \/ \E c \in Calls : CacheHit(c)
    \/ \E c \in Calls : CacheMiss(c)
    \/ \E c \in Calls : RunRemoveSomeParams(c)
    \/ \E c \in Calls : RunRemoveAllParams(c)
    \/ \E c \in Calls : ResolveIgnore(c)
    \/ \E c \in Calls : ResolveMixerUndefined(c)
    \/ \E c \in Calls : SendRequest(c)
    \/ \E c \in Calls, msg \in Failures("Locally") \cup Failures("ViaMixer") :
          ResponseError(c, msg)
    \/ \E c \in Calls, target \in {Video, Tweet} : ResponseTarget(c, target)
    \/ \E c \in Calls : PutAcquire(c)
    \/ \E c \in Calls : CachePut(c)
    \/ \E c \in Calls : Return(c)
    \/ \E c \in Calls : Cancel(c)
    \/ \E c \in Calls : Retry(c)

SpecShared == InitShared /\ [][NextShared]_vars

\* ------------------------------------------------------------ desktop app

\* AppStateFlow::modify_config (main.rs lines 76-86): a new AppState built
\* from the changed config is sent; every receiver has a change to see
modify_config(new_config, event) ==
    [state |-> AppState_new(new_config), seen |-> [jobs |-> FALSE, persist |-> FALSE],
     edits |-> app.edits + 1, event |-> event]

\* gui.rs lines 137-141 with apply_ui_config: the user changed a setting in
\* the config window
UiEdit(ui) ==
    /\ app.edits < MaxEdits
    /\ ui \in env.uis
    /\ ui # UiConfigState(app.state.config.url_washer,
                          app.state.config.enable_clipboard_patcher)
    /\ app' = modify_config(AppConfig(ui.url_washer, ui.enable,
                                      app.state.config.clipboard_patcher_paused_until),
                            "ui")
    /\ UNCHANGED <<rules, env, config, cache, lock, call, tw, mx, job, clip, disk>>

\* update_tray_state (main.rs lines 344-376): what the pause item shows
update_tray_state(cfg) ==
    LET paused_until == cfg.clipboard_patcher_paused_until
        active == cfg.enable_clipboard_patcher /\ paused_until.some /\ paused_until.left > 0
    IN [enabled |-> cfg.enable_clipboard_patcher,
        checked |-> active,
        text |-> IF ~cfg.enable_clipboard_patcher
                 THEN <<"Clipboard debloater disabled in config">>
                 ELSE IF active
                      THEN <<"Clipboard debloater paused for ", paused_until.left, " sec.">>
                      ELSE <<"Pause clipboard debloater for ", CLIPBOARD_PAUSE_DURATION,
                             " sec.">>]

\* main.rs lines 274-283: the pause item of the tray menu was selected
PauseClipboardWasher ==
    /\ app.edits < MaxEdits
    /\ env.tray
    /\ update_tray_state(app.state.config).enabled
    /\ app' = modify_config(
                 [app.state.config EXCEPT !.clipboard_patcher_paused_until =
                     IF @.some THEN NotPaused
                     ELSE PausedFor(CLIPBOARD_PAUSE_DURATION)],
                 "pause")
    /\ UNCHANGED <<rules, env, config, cache, lock, call, tw, mx, job, clip, disk>>

\* the job is at an await point: a sleep, or an await point of the wash()
\* that the text washer awaits
AtAwait ==
    \/ job.pc \in {"off", "paused", "polling", "restart"}
    \/ job.pc = "washing" /\ tw.pc = "running" /\ tw.c # 0 /\ Suspended(tw.c)

\* a mutant of run_background_jobs: the pause is not looked at
run_background_jobs_unpaused(cfg) ==
    [NoJob EXCEPT !.enable = cfg.enable_clipboard_patcher,
                  !.left = cfg.clipboard_patcher_paused_until.left,
                  !.pc = IF ~cfg.enable_clipboard_patcher THEN "off" ELSE "polling"]

\* run_background_jobs (main.rs lines 164-189) up to its first await: no
\* task without enable_clipboard_patcher, else sleep_until(paused_until)
\* and then run_clipboard_patcher with a new ClipboardPoller
run_background_jobs(cfg) ==
    [NoJob EXCEPT !.enable = cfg.enable_clipboard_patcher,
                  !.left = cfg.clipboard_patcher_paused_until.left,
                  !.pc = IF ~cfg.enable_clipboard_patcher THEN "off"
                         ELSE IF cfg.clipboard_patcher_paused_until.left > 0
                              THEN "paused" ELSE "polling"]

\* run_background_jobs_supervisor (main.rs lines 150-162): the first turn of
\* the loop, or changed() completes at an await point of the jobs; select!
\* drops them, the wash() in flight with them, and the loop starts the jobs
\* of the newest AppState, which work on its UrlWasher
Supervise ==
    /\ \/ job.pc = "start"
       \/ ~app.seen.jobs /\ AtAwait
    /\ app' = [app EXCEPT !.seen.jobs = TRUE]
    /\ job' = [run_background_jobs(app.state.config) EXCEPT !.dropped = cache]
    /\ config' = app.state.washer.config
    /\ cache' = app.state.washer.cache
    /\ lock' = 0
    /\ call' = [c \in Calls |-> IdleCall]
    /\ tw' = IdleText
    /\ UNCHANGED <<rules, env, mx, clip, disk>>

\* main.rs lines 171-176 and 192-193: sleep_until(paused_until) is over
Unpause ==
    /\ job.pc = "paused"
    /\ job.left = 0
    /\ job' = [job EXCEPT !.pc = "polling"]
    /\ UNCHANGED <<rules, env, config, cache, lock, call, tw, mx, app, clip, disk>>

\* a mutant of Poll: every text read is reported
Poll_reporting_all ==
    /\ job.pc = "polling"
    /\ job' = [job EXCEPT !.pc = "washing", !.last_text = clip.text, !.dirty = clip.text]
    /\ tw' = [IdleText EXCEPT !.pc = "running", !.text = clip.text,
                              !.parts = SplitParts(clip.text, Word("")),
                              !.seps = Separators(clip.text), !.index = 1]
    /\ UNCHANGED <<rules, env, config, cache, lock, call, mx, app, clip, disk>>

\* ClipboardPoller::poll (clipboard_poller.rs lines 15-28) and main.rs
\* lines 195-200: the text read differs from last_text; it is reported and
\* passed to TextWasher::wash
Poll ==
    /\ job.pc = "polling"
    /\ clip.text # job.last_text
    /\ job' = [job EXCEPT !.pc = "washing", !.last_text = clip.text, !.dirty = clip.text]
    /\ tw' = [IdleText EXCEPT !.pc = "running", !.text = clip.text,
                              !.parts = SplitParts(clip.text, Word("")),
                              !.seps = Separators(clip.text), !.index = 1]
    /\ UNCHANGED <<rules, env, config, cache, lock, call, mx, app, clip, disk>>

\* clipboard_poller.rs line 21 and main.rs lines 176-179: get_text fails,
\* run_clipboard_patcher returns the error and the 5 s sleep begins
PollFails ==
    /\ job.pc = "polling"
    /\ job' = [job EXCEPT !.pc = "restart"]
    /\ UNCHANGED <<rules, env, config, cache, lock, call, tw, mx, app, clip, disk>>

\* main.rs lines 174-179 and 192-193: run_clipboard_patcher is called again
\* and makes a new ClipboardPoller
PatcherRestart ==
    /\ job.pc = "restart"
    /\ job' = [job EXCEPT !.pc = "polling", !.last_text = <<>>, !.dirty = <<>>,
                          !.own = FALSE]
    /\ UNCHANGED <<rules, env, config, cache, lock, call, tw, mx, app, clip, disk>>

\* a mutant of PatchClipboard: the washed text is written whatever the
\* clipboard holds by now
PatchClipboard_unchecked(readable, written) ==
    /\ job.pc = "washing"
    /\ tw.pc = "done"
    /\ LET write == tw.patched # job.dirty
       IN /\ job' = [job EXCEPT !.pc = "polling",
                                !.last_text = IF write THEN tw.patched ELSE @,
                                !.outcome = IF ~write THEN "clean"
                                            ELSE IF written THEN "written" ELSE "failed",
                                !.own = write /\ written,
                                !.dropped = <<>>]
          /\ clip' = IF write /\ written THEN Clipboard(tw.patched, "patcher") ELSE clip
    /\ tw' = IdleText
    /\ UNCHANGED <<rules, env, config, cache, lock, call, mx, app, disk>>

\* main.rs lines 200-210 with ClipboardPoller::set_text: the washed text is
\* written when it differs from the text read and get_text gives the text
\* read; readable and written are whether get_text and arboard's set_text
\* succeed
PatchClipboard(readable, written) ==
    /\ job.pc = "washing"
    /\ tw.pc = "done"
    /\ LET write == tw.patched # job.dirty /\ readable /\ clip.text = job.dirty
       IN /\ job' = [job EXCEPT !.pc = "polling",
                                !.last_text = IF write THEN tw.patched ELSE @,
                                !.outcome = IF tw.patched = job.dirty THEN "clean"
                                            ELSE IF ~readable THEN "unreadable"
                                            ELSE IF clip.text # job.dirty THEN "changed"
                                            ELSE IF written THEN "written" ELSE "failed",
                                !.own = write /\ written,
                                !.dropped = <<>>]
          /\ clip' = IF write /\ written THEN Clipboard(tw.patched, "patcher") ELSE clip
    /\ tw' = IdleText
    /\ UNCHANGED <<rules, env, config, cache, lock, call, mx, app, disk>>

\* someone copies another text
UserCopy(text) ==
    /\ text \in env.texts
    /\ text # clip.text
    /\ clip' = Clipboard(text, "user")
    /\ job' = [job EXCEPT !.own = FALSE]
    /\ UNCHANGED <<rules, env, config, cache, lock, call, tw, mx, app, disk>>

\* the time left after TickSecs more seconds
Later(left) == IF left > TickSecs THEN left - TickSecs ELSE 0

\* time passes, towards the instants some sleep_until or menu waits for
Tick ==
    /\ app.state.config.clipboard_patcher_paused_until.left > 0 \/ job.left > 0
    /\ app' = [app EXCEPT !.state.config.clipboard_patcher_paused_until.left = Later(@)]
    /\ job' = [job EXCEPT !.left = Later(@)]
    /\ UNCHANGED <<rules, env, config, cache, lock, call, tw, mx, clip, disk>>

\* save_to_file (config.rs lines 57-64) with serialize_pause_instant: the
\* config with the pause as the time left
save_to_file(cfg) == [written |-> TRUE, config |-> cfg]

\* persist_config (main.rs lines 134-140): changed() completes, the newest
\* config is taken and serialised, and the write begins
PersistWake ==
    /\ disk.pc = "waiting"
    /\ ~app.seen.persist
    /\ app' = [app EXCEPT !.seen.persist = TRUE]
    /\ disk' = [disk EXCEPT !.pc = "saving", !.pending = save_to_file(app.state.config)]
    /\ UNCHANGED <<rules, env, config, cache, lock, call, tw, mx, job, clip>>

\* a mutant of PersistSaved: a failed save ends the loop
PersistSaved_giving_up(ok) ==
    /\ disk.pc = "saving"
    /\ disk' = [disk EXCEPT !.pc = IF ok THEN "throttle" ELSE "returned",
                            !.file = IF ok THEN disk.pending ELSE @,
                            !.failed = ~ok]
    /\ UNCHANGED <<rules, env, config, cache, lock, call, tw, mx, app, job, clip>>

\* main.rs lines 141-146: the write is over, well or not, and the 1 s sleep
\* begins
PersistSaved(ok) ==
    /\ disk.pc = "saving"
    /\ disk' = [disk EXCEPT !.pc = "throttle",
                            !.file = IF ok THEN disk.pending ELSE @,
                            !.failed = ~ok]
    /\ UNCHANGED <<rules, env, config, cache, lock, call, tw, mx, app, job, clip>>

\* main.rs line 146 and 133: the sleep is over, the loop turns
PersistThrottled ==
    /\ disk.pc = "throttle"
    /\ disk' = [disk EXCEPT !.pc = "waiting"]
    /\ UNCHANGED <<rules, env, config, cache, lock, call, tw, mx, app, job, clip>>

\* the runs of the desktop app: the texts that get copied, the settings the
\* user chooses in the config window, and whether the tray menu is used
DesktopRuns ==
    { [texts |-> {LeadingText, << T(Word("see")) >>},
       uis |-> { UiConfigState(UrlWasherConfig_default, TRUE),
                 UiConfigState(UrlWasherConfig(FALSE, NoPolicy), TRUE),
                 UiConfigState(UrlWasherConfig(FALSE,
                                   [n \in {"vm.tiktok.com"} |-> "ViaMixer"]), TRUE) },
       tray |-> FALSE],
      [texts |-> {<< T(Word("see")) >>},
       uis |-> { UiConfigState(UrlWasherConfig_default, TRUE),
                 UiConfigState(UrlWasherConfig_default, FALSE) },
       tray |-> TRUE] }

\* main() (main.rs lines 102-127) on a first launch: AppConfig::default()
InitDesktop ==
    /\ rules = rule_set
    /\ \E r \in DesktopRuns :
          env = [urls |-> {}, texts |-> r.texts, parallel |-> 1, uis |-> r.uis,
                 tray |-> r.tray]
    /\ config = AppConfig_default.url_washer
    /\ cache = <<>>
    /\ lock = 0
    /\ call = [c \in Calls |-> IdleCall]
    /\ tw = IdleText
    /\ mx = IdleMixer
    /\ NoDesktop

NextDesktop ==
    \/ \E ui \in UNION {r.uis : r \in DesktopRuns} : UiEdit(ui)
    \/ PauseClipboardWasher
    \/ Supervise
    \/ Unpause
    \/ Poll
    \/ PollFails
    \/ PatcherRestart
    \/ \E readable, written \in BOOLEAN : PatchClipboard(readable, written)
    \/ \E text \in UNION {r.texts : r \in DesktopRuns} : UserCopy(text)
    \/ Tick
    \/ TextKeep
    \/ \E c \in Calls : TextWash(c)
    \/ TextWashed
    \/ TextFinish
    \/ \E c \in Calls : GetAcquire(c)
    \/ \E c \in Calls : CacheHit(c)
    \/ \E c \in Calls : CacheMiss(c)
    \/ \E c \in Calls : RunRemoveSomeParams(c)
    \/ \E c \in Calls : RunRemoveAllParams(c)
    \/ \E c \in Calls : ResolveIgnore(c)
    \/ \E c \in Calls : ResolveMixerUndefined(c)
    \/ \E c \in Calls : SendRequest(c)
    \/ \E c \in Calls, msg \in Failures("Locally") \cup Failures("ViaMixer") :
          ResponseError(c, msg)
    \/ \E c \in Calls, target \in Targets : ResponseTarget(c, target)
    \/ \E c \in Calls : PutAcquire(c)
    \/ \E c \in Calls : CachePut(c)

\* the GUI, the supervisor with its jobs and the washer they use
SpecDesktop == InitDesktop /\ [][NextDesktop]_vars

\* the GUI and persist_config, the other receiver of the channel
NextPersist ==
    \/ \E ui \in UNION {r.uis : r \in DesktopRuns} : UiEdit(ui)
    \/ PauseClipboardWasher
    \/ Tick
    \/ PersistWake
    \/ \E ok \in BOOLEAN : PersistSaved(ok)
    \/ PersistThrottled

\* persist_config is a spawned task of the tokio runtime (main.rs line
\* 126): once changed(), the write or the sleep can complete, it does
SpecPersist ==
    /\ InitDesktop
    /\ [][NextPersist]_vars
    /\ WF_vars(PersistWake)
    /\ WF_vars(\E ok \in BOOLEAN : PersistSaved(ok))
    /\ WF_vars(PersistThrottled)

\* ----------------------------------------------------------------- claims

\* the calls that are being made or have just returned
Live == {c \in Calls : call[c].pc # "idle"}

IsHttp(url) == url.scheme = "http" \/ url.scheme = "https"

\* the host of url is, literally, one of the domains of rule j of the table,
\* and the path pattern of that rule matches
RuleApplies(j, url) ==
    /\ url.domain
    /\ url.host \in Range(rules[j].domains)
    /\ matches_path(rules[j], url)

NoRuleApplies(url) == \A j \in 1..Len(rules) : ~RuleApplies(j, url)

HasResolve(j) == \E i \in 1..Len(rules[j].washing_programs) :
                    rules[j].washing_programs[i].op = "ResolveRedirection"

\* the policy configured under the name of rule j, "Ignore" without one
Configured(j) ==
    IF rules[j].name \in DOMAIN config.redirect_policy
    THEN config.redirect_policy[rules[j].name]
    ELSE "Ignore"

RECURSIVE KeepPairs(_, _)
\* the pairs whose key is none of names, in order, each as often as it occurs
KeepPairs(pairs, names) ==
    IF pairs = <<>> THEN <<>>
    ELSE IF Head(pairs).key \in names
         THEN KeepPairs(Tail(pairs), names)
         ELSE <<Head(pairs)>> \o KeepPairs(Tail(pairs), names)

\* C1: each RemoveSomeParams step leaves a URL whose query holds exactly the
\* pairs of the URL before it whose key is not named, in their order and
\* number, and no query component at all when no pair is left; scheme, host
\* and path are untouched.
C1_RemoveSomeParams ==
    \A c \in Live : \A i \in 1..Len(call[c].trace) :
        LET t == call[c].trace[i]
            left == KeepPairs(query_pairs(t.before), Range(t.params))
        IN t.op = "RemoveSomeParams" =>
              /\ query_pairs(t.after) = left
              /\ t.after.query.some <=> left # <<>>
              /\ t.after.query.some => Len(t.after.query.segs) = Len(left)
              /\ [t.after EXCEPT !.query = NoQuery] = [t.before EXCEPT !.query = NoQuery]

\* C1 witness: a URL with two occurrences of a named key and two of another
\* key has been stripped and keeps the two.
C1_Witness ==
    \E c \in Live :
        /\ call[c].trace # <<>>
        /\ call[c].trace[1].op = "RemoveSomeParams"
        /\ call[c].trace[1].before = Dup
        /\ call[c].trace[1].params = <<"t", "a b">>
        /\ Len(query_pairs(call[c].trace[1].after)) = 2

\* C1 witness of the empty result: the only pair was named and the query is
\* gone.
C1_WitnessEmpty ==
    \E c \in Live :
        /\ call[c].trace # <<>>
        /\ call[c].trace[1].before = OnlyTracking
        /\ ~call[c].trace[1].after.query.some

\* C2: the rule a call applies is the first rule of the table that lists the
\* URL's host literally and whose path pattern matches; the programs it runs
\* are that rule's programs, in order, and a call that returns a washed URL
\* it did not take from the cache has run all of them and nothing else.
C2_FirstRule ==
    \A c \in Live :
        LET r == call[c].rule
            url == call[c].url
        IN r # 0 =>
              /\ RuleApplies(r, url)
              /\ \A j \in 1..(r - 1) : ~RuleApplies(j, url)
              /\ Len(call[c].trace) <= Len(rules[r].washing_programs)
              /\ \A i \in 1..Len(call[c].trace) :
                    /\ call[c].trace[i].op = rules[r].washing_programs[i].op
                    /\ call[c].trace[i].params = rules[r].washing_programs[i].params
              /\ (call[c].pc = "done" /\ call[c].result.kind = "some") =>
                    Len(call[c].trace) = Len(rules[r].washing_programs)

\* C2 witness: a URL that two rules of the table match has been washed by
\* the first of them.
C2_Witness ==
    \E c \in Live :
        /\ call[c].pc = "done"
        /\ call[c].rule # 0
        /\ \E j \in (call[c].rule + 1)..Len(rules) : RuleApplies(j, call[c].url)
        /\ call[c].result.kind = "some"

Keys(c) == {c[i].k : i \in 1..Len(c)}

\* the step is one of call c, which returns result in it
Returns(c, kind) ==
    /\ call[c].pc # "done"
    /\ call'[c].pc = "done"
    /\ call'[c].result.kind = kind

\* C3: an http(s) URL that no rule applies to is never sent anywhere, never
\* stored and never found in the cache, and wash() returns None for it; the
\* text washer emits the part that held it exactly as it was written.
C3_NoMatch ==
    /\ \A c \in Live :
          (IsHttp(call[c].url) /\ NoRuleApplies(call[c].url)) =>
              /\ call[c].reqs = 0
              /\ call[c].puts = 0
              /\ ~call[c].saw.some
              /\ call[c].pc \in {"get_lock", "get_locked", "done"}
              /\ call[c].pc = "done" => call[c].result = OkNone
    /\ \A k \in Keys(cache) : ~NoRuleApplies(k)
    /\ \A i \in 1..Len(tw.outs) :
          (IsUrlPart(tw.parts[i]) /\ NoRuleApplies(ParseUrl(tw.parts[i].url))) =>
              tw.outs[i] = tw.parts[i]

\* C3 witness: with the cache full, wash() has returned None to the text
\* washer for a URL without a rule, written with an upper-case host and no
\* path, and the part before it has been put back as it was written.
C3_Witness ==
    /\ Len(cache) = CacheCap
    /\ tw.pc = "running"
    /\ tw.c # 0
    /\ tw.parts[tw.index] = UrlToken(UnrelatedAsTyped)
    /\ call[tw.c].pc = "done"
    /\ call[tw.c].url = ParseUrl(UnrelatedAsTyped)
    /\ call[tw.c].result = OkNone
    /\ \E i \in 1..Len(tw.outs) : tw.outs[i] = tw.parts[i] /\ IsUrlPart(tw.parts[i])

\* C4: a call whose lookup finds the dirty URL in the cache returns the
\* value found, without matching a rule, running a program or sending a
\* request; and an entry leaves the cache only as the least recently used
\* entry of a full cache, in a step that stores another URL.
C4_CacheHit ==
    /\ [](\A c \in Live :
            call[c].saw.some =>
                /\ call[c].pc = "done"
                /\ call[c].result = OkSome(call[c].saw.url)
                /\ call[c].rule = 0
                /\ call[c].trace = <<>>
                /\ call[c].reqs = 0
                /\ call[c].puts = 0)
    /\ [][\A k \in Keys(cache) \ Keys(cache') :
            /\ Len(cache) = CacheCap
            /\ k = cache[Len(cache)].k
            /\ \E c \in Calls : call'[c].puts = call[c].puts + 1 /\ call[c].url # k]_vars

\* C4 witness: with the cache full, a short link is served from the cache
\* with the target it resolved to in an earlier call.
C4_Witness ==
    \E c \in Live :
        /\ call[c].saw.some
        /\ call[c].url = ShortLink
        /\ call[c].result = OkSome(set_query_none(Video))
        /\ Len(cache) = CacheCap

\* C5: a call that returns an error has found nothing in the cache and has
\* stored nothing, the cache holds no entry for its URL when it returns, and
\* the step in which it fails leaves the cache as it is; the cache changes
\* only in a step in which a call finds its URL or stores its result.
C5_ErrorCachesNothing ==
    /\ [](\A c \in Live :
            call[c].result.kind = "err" =>
                /\ call[c].pc = "done"
                /\ call[c].saw.looked
                /\ ~call[c].saw.some
                /\ call[c].puts = 0
                /\ call[c].url \notin Keys(cache))
    /\ [][(\A c \in Calls : Returns(c, "err") => cache' = cache)
          /\ (cache' # cache =>
                \E c \in Calls :
                    \/ call'[c].puts = call[c].puts + 1
                    \/ ~call[c].saw.looked /\ call'[c].saw.some)]_vars

\* C5 witness: the redirect could not be resolved, after a request, and
\* the call has returned the error.
C5_Witness ==
    \E c \in Live :
        /\ call[c].pc = "done"
        /\ call[c].result.kind = "err"
        /\ call[c].reqs = 1
        /\ call[c].trace = <<>>
        /\ cache # <<>>

\* C6 as stated: two calls in a row with the same URL send at most one
\* request between them.
C6_AtMostOneRequest ==
    \A c \in Live :
        (call[c].pc = "done" /\ call[c].first.called) =>
            call[c].first.reqs + call[c].reqs <= 1

\* C6 amended: two calls in a row with the same URL, made by a caller that
\* makes one call at a time, send at most one request between them unless
\* the first call failed after sending its request; when the first call
\* returned a washed URL the second finds it in the cache, returns the same
\* URL and sends nothing.
C6_AtMostOneRequestUnlessFailed ==
    \A c \in Live :
        (/\ call[c].pc = "done"
         /\ call[c].first.called
         /\ ~(call[c].first.result.kind = "err" /\ call[c].first.reqs > 0)) =>
            /\ call[c].first.reqs + call[c].reqs <= 1
            /\ call[c].first.result.kind = "some" =>
                  /\ call[c].saw.some
                  /\ call[c].reqs = 0
                  /\ call[c].result = call[c].first.result

\* C6 witness: the first call resolved the short link with one request and
\* the second call, with the same URL, was served from the cache.
C6_Witness ==
    \E c \in Live :
        /\ call[c].pc = "done"
        /\ call[c].first.called
        /\ call[c].first.reqs = 1
        /\ call[c].first.result.kind = "some"
        /\ call[c].saw.some
        /\ call[c].reqs = 0

\* C7: a call that has sent a request had missed the cache and matched a
\* rule that contains ResolveRedirection and whose configured policy is
\* Locally or ViaMixer; every request is sent from the ResolveRedirection
\* program; and whenever the cache gains an entry, a call returns, in that
\* step, the washed URL that the entry maps its dirty URL to.
C7_RequestsAndStores ==
    /\ [](\A c \in Live :
            (call[c].reqs > 0 \/ call[c].pc = "awaiting") =>
                /\ call[c].saw.looked
                /\ ~call[c].saw.some
                /\ call[c].rule # 0
                /\ HasResolve(call[c].rule)
                /\ Configured(call[c].rule) \in {"Locally", "ViaMixer"})
    /\ [][\A c \in Calls :
            call'[c].reqs # call[c].reqs /\ call'[c].pc # "idle" /\ call[c].pc # "done" =>
                /\ call[c].pc = "program"
                /\ call'[c].reqs = call[c].reqs + 1
                /\ rules[call[c].rule].washing_programs[call[c].prog].op
                      = "ResolveRedirection"]_vars
    /\ [][\A e \in Range(cache') \ Range(cache) :
            \E c \in Calls :
                /\ Returns(c, "some")
                /\ e = [k |-> call[c].url, v |-> call'[c].result.url]]_vars

\* C7 witness: a call is waiting for the answer of the mixer to its
\* request while the cache holds the result of an earlier call that sent
\* none.
C7_Witness ==
    \E c \in Live :
        /\ call[c].pc = "awaiting"
        /\ call[c].reqs = 1
        /\ call[c].policy = "ViaMixer"
        /\ \E e \in Range(cache) : RuleApplies(1, e.k)

\* C8: under policy Ignore (configured, or no policy configured) the
\* ResolveRedirection program hands its URL on unchanged and sends nothing;
\* the programs after a ResolveRedirection run whether it resolved the
\* redirect or not; and for a rule [ResolveRedirection, RemoveAllParams]
\* under Ignore a call that missed the cache returns the dirty URL without
\* its query and, in the step in which it returns, stores that result as
\* the most recently used entry.
C8_IgnoreHandsOn ==
    /\ [](\A c \in Live :
            /\ \A i \in 1..Len(call[c].trace) :
                  (call[c].trace[i].op = "ResolveRedirection"
                   /\ Configured(call[c].rule) = "Ignore") =>
                      call[c].trace[i].after = call[c].trace[i].before
            /\ (call[c].rule # 0 /\ Configured(call[c].rule) = "Ignore") =>
                  /\ call[c].reqs = 0
                  /\ call[c].result.kind # "err"
            /\ (call[c].rule # 0 /\ call[c].pc = "done" /\ call[c].result.kind = "some") =>
                  Len(call[c].trace) = Len(rules[call[c].rule].washing_programs)
            /\ (/\ call[c].rule # 0
                /\ call[c].pc = "done"
                /\ rules[call[c].rule].washing_programs
                      = <<ResolveRedirection, RemoveAllParams>>
                /\ Configured(call[c].rule) = "Ignore") =>
                  /\ call[c].result = OkSome([call[c].url EXCEPT !.query = NoQuery])
                  /\ call[c].puts = 1)
    /\ [][\A c \in Calls :
            (call[c].pc = "put_locked" /\ call'[c].pc = "done") =>
                /\ call'[c].result.kind = "some"
                /\ cache'[1] = [k |-> call[c].url, v |-> call'[c].result.url]]_vars

\* C8 witness: with the policy of the short-link rule set to Ignore, the
\* short link has come back without its query and is in the cache.
C8_Witness ==
    \E c \in Live :
        /\ call[c].pc = "done"
        /\ call[c].url = ShortLink
        /\ rules[call[c].rule].name \in DOMAIN config.redirect_policy
        /\ config.redirect_policy[rules[call[c].rule].name] = "Ignore"
        /\ call[c].result = OkSome(set_query_none(ShortLink))
        /\ cache[1] = [k |-> ShortLink, v |-> set_query_none(ShortLink)]

RuleNames == {rules[j].name : j \in 1..Len(rules)}

\* config.redirect_policy without the entries whose key names no rule
NamedPolicies ==
    [n \in DOMAIN config.redirect_policy \cap RuleNames |-> config.redirect_policy[n]]

\* C9: a call whose rule's name has no entry in redirect_policy sends no
\* request, does not fail, and its ResolveRedirection hands the URL on
\* unchanged, whatever is configured under other keys (the rule's domains
\* included); and the policy a call resolves under is the one
\* redirect_policy holds once the entries whose key names no rule are
\* taken out (Ignore if none is left for the rule).
C9_PolicyByRuleName ==
    \A c \in Live :
        LET r == call[c].rule IN
        r # 0 =>
           /\ rules[r].name \notin DOMAIN config.redirect_policy =>
                 /\ call[c].reqs = 0
                 /\ call[c].pc # "awaiting"
                 /\ call[c].result.kind # "err"
                 /\ call[c].policy \in {"", "Ignore"}
                 /\ \A i \in 1..Len(call[c].trace) :
                       call[c].trace[i].op = "ResolveRedirection" =>
                           call[c].trace[i].after = call[c].trace[i].before
           /\ call[c].policy # "" =>
                 call[c].policy = IF rules[r].name \in DOMAIN NamedPolicies
                                  THEN NamedPolicies[rules[r].name]
                                  ELSE "Ignore"

\* C9 witness: the policy map has an entry for the rule's domain and for a
\* key that names no rule, but none for the rule's name, and the rule's
\* ResolveRedirection has handed the URL on unresolved.
C9_Witness ==
    \E c \in Live :
        /\ call[c].rule # 0
        /\ rules[call[c].rule].name \notin DOMAIN config.redirect_policy
        /\ rules[call[c].rule].domains[1] \in DOMAIN config.redirect_policy
        /\ DOMAIN config.redirect_policy \ RuleNames # {}
        /\ call[c].pc = "done"
        /\ call[c].policy = "Ignore"
        /\ call[c].result.kind = "some"

\* C10: with policy ViaMixer for the matched rule and no mixer instance, a
\* call sends no request and stores nothing, fails with "undefined mixer
\* instance" when it returns, and the cache never holds an entry for its
\* URL.
C10_MixerNotConfigured ==
    \A c \in Live :
        (/\ call[c].rule # 0
         /\ HasResolve(call[c].rule)
         /\ Configured(call[c].rule) = "ViaMixer"
         /\ ~config.mixer_instance) =>
            /\ call[c].reqs = 0
            /\ call[c].puts = 0
            /\ call[c].pc \in {"program", "done"}
            /\ call[c].pc = "done" => call[c].result = Err("undefined mixer instance")
            /\ call[c].url \notin Keys(cache)

\* C10 witness: the short link has failed for want of a mixer instance
\* while the cache holds other entries.
C10_Witness ==
    \E c \in Live :
        /\ call[c].pc = "done"
        /\ call[c].url = ShortLink
        /\ call[c].result = Err("undefined mixer instance")
        /\ cache # <<>>

\* C11: a call that resolves under policy Locally has sent exactly one
\* request, a GET to the URL it was resolving; once the response is there,
\* a Location header that parses as a URL is the result of the
\* ResolveRedirection program (also when that URL is a short link itself),
\* and in every other case the call has failed: without a Location header
\* with "missing location header", with one that is no URL with "parse
\* location url".
C11_LocallyOneHop ==
    \A c \in Live :
        call[c].policy = "Locally" =>
            /\ call[c].reqs = 1
            /\ call[c].sent.to = "url"
            /\ call[c].pc = "awaiting" => call[c].sent.url = call[c].laundry
            /\ call[c].pc # "awaiting" =>
                  LET loc == call[c].resp.location IN
                  IF call[c].resp.sent /\ loc.kind = "text" /\ loc.text.parses
                  THEN /\ call[c].result.kind # "err"
                       /\ \E i \in 1..Len(call[c].trace) :
                             /\ call[c].trace[i].op = "ResolveRedirection"
                             /\ call[c].trace[i].before = call[c].sent.url
                             /\ call[c].trace[i].after = ParseUrl(loc.text.url)
                  ELSE /\ call[c].pc = "done"
                       /\ call[c].result.kind = "err"
                       /\ (call[c].resp.sent /\ loc.kind = "none") =>
                             call[c].result.err = "missing location header"
                       /\ (call[c].resp.sent /\ loc.kind = "text") =>
                             call[c].result.err = "parse location url"

\* C11 witness: the Location header named another short link; the call sent
\* one request and returned that link without its query.
C11_Witness ==
    \E c \in Live :
        /\ call[c].pc = "done"
        /\ call[c].policy = "Locally"
        /\ call[c].url = ShortLink
        /\ call[c].resp.location = Text(UrlToken(Hop))
        /\ call[c].reqs = 1
        /\ call[c].result = OkSome(set_query_none(Hop))

\* C11 witness of the failure: the response had no Location header.
C11_WitnessMissing ==
    \E c \in Live :
        /\ call[c].policy = "Locally"
        /\ call[c].resp = Response(TRUE, 200, NoValue, Text(Word("page")))
        /\ call[c].result = Err("missing location header")

\* the redirect of a URL that rule j applies to is resolved with a request
Resolving(j) == HasResolve(j) /\ Configured(j) \in {"Locally", "ViaMixer"}

\* C12 as stated: with the program's rule table, a call that washes the
\* washed URL of an earlier call returns that URL, or None.
C12_Idempotent ==
    \A c \in Live :
        (rules = rule_set /\ call[c].rewash.kind = "some" /\ call[c].pc = "done") =>
            \/ call[c].result = OkSome(call[c].url)
            \/ call[c].result = OkNone

\* C12 amended: with the program's rule table, a call that washes the
\* washed URL of an earlier call returns that URL, or None, and sends no
\* request, unless the washed URL is itself a URL of a rule whose redirect
\* is resolved with a request (policy Locally or ViaMixer).
C12_IdempotentUnlessResolving ==
    \A c \in Live :
        (/\ rules = rule_set
         /\ call[c].rewash.kind = "some"
         /\ \A j \in 1..Len(rules) : RuleApplies(j, call[c].url) => ~Resolving(j)) =>
            /\ call[c].url = call[c].rewash.url
            /\ call[c].reqs = 0
            /\ call[c].pc = "done" =>
                  \/ call[c].result = OkSome(call[c].url)
                  \/ call[c].result = OkNone

\* C12 witness: a short link resolved to a tweet; the washed tweet, washed
\* again by its own rule, has come back as it was.
C12_Witness ==
    \E c \in Live :
        /\ rules = rule_set
        /\ call[c].pc = "done"
        /\ call[c].rewash = OkSome(set_query_none(Tweet))
        /\ ~call[c].saw.some
        /\ call[c].rule # 0
        /\ call[c].result = call[c].rewash
        /\ [k |-> ShortLink, v |-> set_query_none(Tweet)] \in Range(cache)

\* a URL that wash() can return a washed URL for: http(s), and a rule applies
Washable(url) == IsHttp(url) /\ ~NoRuleApplies(url)

\* C13: the text TextWasher.wash returns has the units of the input text,
\* one for one: every whitespace character where it was, and every token
\* either as it was or, when it is an http(s) URL, a URL in its place; when
\* no rule applies to any URL of the text, the text comes back as it was.
C13_TextStructure ==
    tw.pc = "done" =>
        /\ Len(tw.patched) = Len(tw.text)
        /\ Separators(tw.patched) = Separators(tw.text)
        /\ \A i \in 1..Len(tw.text) :
              IF tw.text[i].ws
              THEN tw.patched[i] = tw.text[i]
              ELSE /\ ~tw.patched[i].ws
                   /\ \/ tw.patched[i] = tw.text[i]
                      \/ /\ IsUrlPart(tw.text[i].tok)
                         /\ Washable(ParseUrl(tw.text[i].tok.url))
                         /\ IsUrlPart(tw.patched[i].tok)
        /\ (\A i \in 1..Len(tw.text) :
                IsUrlPart(tw.text[i].tok) => ~Washable(ParseUrl(tw.text[i].tok.url)))
              => tw.patched = tw.text

\* C13 witness: the text with mixed separators has come back with the
\* tracking parameter of its link gone and everything else in place.
C13_Witness ==
    /\ tw.pc = "done"
    /\ tw.text = MixedText
    /\ tw.patched =
          << T(Word("see")), WS(" "), T(UrlToken(Plain)), WS("\t"), WS("\n"),
             T(UrlToken(UnrelatedAsTyped)), WS(" ") >>

\* C13 witness of the text without a washable URL: it has come back as it
\* was, its leading run of newlines and its trailing space included.
C13_WitnessClean ==
    /\ tw.pc = "done"
    /\ tw.text = CleanText
    /\ tw.patched = CleanText

\* C14: when wash() returns to the text washer, the text washer goes on to
\* the next part whatever the result: after an error or None it has put the
\* part back as it was, after a washed URL it has put that URL in its place;
\* it passes a part that is an http(s) URL only after a wash() call for that
\* URL has returned, whatever the calls before it returned; and it ends
\* only with all parts done.
C14_TextAbsorbsErrors ==
    /\ [](tw.pc = "done" => Len(tw.outs) = Len(tw.parts))
    /\ [][tw.c # 0 /\ tw'.c = 0 =>
            /\ tw'.pc = "running"
            /\ tw'.index = tw.index + 1
            /\ Len(tw'.outs) = tw.index
            /\ call[tw.c].result.kind \in {"err", "none"} =>
                  tw'.outs[tw.index] = tw.parts[tw.index]
            /\ call[tw.c].result.kind = "some" =>
                  tw'.outs[tw.index] = to_string(call[tw.c].result.url)]_vars
    /\ [][(tw.pc = "running" /\ tw'.pc = "running" /\ tw'.index = tw.index + 1
            /\ IsUrlPart(tw.parts[tw.index])) =>
                /\ tw.c # 0
                /\ call[tw.c].pc = "done"
                /\ call[tw.c].url = ParseUrl(tw.parts[tw.index].url)]_vars

\* C14 witness: the short link of the text could not be resolved and is
\* back as it was, and the link after it has lost its tracking parameter.
C14_Witness ==
    /\ rules = rule_set
    /\ tw.pc = "done"
    /\ tw.text = LeadingText
    /\ ShortLink \notin Keys(cache)
    /\ tw.patched =
          << WS(" "), T(UrlToken(ShortLink)), WS("\n"), T(BadUrl("https://")),
             WS(" "),
             T(UrlToken(Https("youtu.be", <<"lSwnPoo9ZK0">>, Query(<<Piece("t", "65")>>)))) >>

\* C15 as stated: the tokens of a text are washed concurrently; while the
\* wash of a token waits for the answer to its request, the wash of every
\* later token that is an http(s) URL is in progress too.
C15_TokensWashedConcurrently ==
    (tw.pc = "running" /\ tw.c # 0 /\ call[tw.c].pc = "awaiting") =>
        \A i \in (tw.index + 1)..Len(tw.parts) :
            IsUrlPart(tw.parts[i]) =>
                \E c \in Live :
                    /\ call[c].owner = "text"
                    /\ c # tw.c
                    /\ call[c].url = ParseUrl(tw.parts[i].url)

\* C16: a call with a URL whose scheme is neither http nor https has
\* returned None at once: it has not looked into the cache, matched no
\* rule, run no program, sent no request and stored nothing; and the step
\* in which it begins leaves the cache, the order of its entries included,
\* and the lock as they are.
C16_OtherScheme ==
    /\ [](\A c \in Live :
            ~IsHttp(call[c].url) =>
                /\ call[c].pc = "done"
                /\ call[c].result = OkNone
                /\ ~call[c].saw.looked
                /\ call[c].rule = 0
                /\ call[c].trace = <<>>
                /\ call[c].reqs = 0
                /\ call[c].puts = 0
                /\ call[c].url \notin Keys(cache))
    /\ [][\A c \in Calls :
            (call'[c] # call[c] /\ call'[c].pc # "idle" /\ ~IsHttp(call'[c].url)) =>
                cache' = cache /\ lock' = lock]_vars

\* C16 witness: with the cache full, an ftp URL on a host that a rule lists
\* has come back as None.
C16_Witness ==
    \E c \in Live :
        /\ call[c].url = FtpUrl
        /\ \E j \in 1..Len(rules) : FtpUrl.host \in Range(rules[j].domains)
        /\ call[c].pc = "done"
        /\ call[c].result = OkNone
        /\ Len(cache) = CacheCap

\* C17 as stated: a rule with a path pattern is applied only to a URL whose
\* path has, at the position of every element of the pattern that is no
\* wildcard, a segment equal to it.
C17_PathPattern ==
    \A c \in Live :
        LET r == call[c].rule IN
        (r # 0 /\ rules[r].path_pattern # <<>>) =>
            \A i \in 1..Len(rules[r].path_pattern) :
                ~rules[r].path_pattern[i].wild =>
                    /\ i <= Len(call[c].url.path)
                    /\ call[c].url.path[i] = rules[r].path_pattern[i].seg

\* the entries of c other than the one for key k, in their order
Others(c, k) == SelectSeqBy(c, {e \in Range(c) : e.k # k})

\* C18: the cache never holds more entries than its capacity, and no key
\* twice. A call that finds its URL makes that entry the most recently used
\* one and leaves the others in their order; a call that stores its result
\* puts it first, and when the URL is new and the cache is full exactly the
\* last, least recently used, entry goes; nothing else changes the cache.
C18_BoundedLru ==
    /\ [](Len(cache) <= CacheCap)
    /\ [](Cardinality(Keys(cache)) = Len(cache))
    /\ [][\A c \in Calls :
            (~call[c].saw.looked /\ call'[c].saw.some) =>
                /\ cache'[1] = [k |-> call[c].url, v |-> call'[c].result.url]
                /\ cache'[1] \in Range(cache)
                /\ Tail(cache') = Others(cache, call[c].url)]_vars
    /\ [][\A c \in Calls :
            call'[c].puts = call[c].puts + 1 =>
                /\ cache'[1] = [k |-> call[c].url, v |-> call'[c].result.url]
                /\ Tail(cache') =
                      IF call[c].url \in Keys(cache) THEN Others(cache, call[c].url)
                      ELSE IF Len(cache) = CacheCap
                           THEN SubSeq(cache, 1, Len(cache) - 1)
                           ELSE cache
                /\ (call[c].url \notin Keys(cache) /\ Len(cache) = CacheCap) =>
                      Keys(cache) \ Keys(cache') = {cache[Len(cache)].k}]_vars
    /\ [][cache' # cache =>
            \E c \in Calls :
                \/ call'[c].puts = call[c].puts + 1
                \/ ~call[c].saw.looked /\ call'[c].saw.some]_vars

\* C18 witness: the store of a call has pushed the least recently used
\* entry out of the full cache.
C18_Witness ==
    \E c \in Live :
        /\ call[c].pc = "done"
        /\ call[c].puts = 1
        /\ call[c].evicted # NoUrl
        /\ call[c].evicted \notin Keys(cache)
        /\ Len(cache) = CacheCap
        /\ cache[1].k = call[c].url

RECURSIVE Outcomes(_, _, _)
\* the URLs that the programs from index i on of rule j can turn url into
Outcomes(j, i, url) ==
    IF i > Len(rules[j].washing_programs) THEN {url}
    ELSE LET p == rules[j].washing_programs[i]
             next == CASE p.op = "RemoveSomeParams" -> {remove_query_params(url, p.params)}
                       [] p.op = "RemoveAllParams" -> {set_query_none(url)}
                       [] OTHER -> IF Configured(j) = "Ignore" THEN {url} ELSE Targets
         IN UNION {Outcomes(j, i + 1, u) : u \in next}

\* C19: every cache entry maps an http(s) URL that a rule applies to to a
\* URL that all the programs of the first such rule, run in order from that
\* URL, give; and a washed URL that wash() returns is such a URL too.
C19_WholeRuleOnly ==
    /\ \A e \in Range(cache) :
          /\ IsHttp(e.k)
          /\ \E j \in 1..Len(rules) :
                /\ RuleApplies(j, e.k)
                /\ \A h \in 1..(j - 1) : ~RuleApplies(h, e.k)
                /\ e.v \in Outcomes(j, 1, e.k)
    /\ \A c \in Live :
          (call[c].pc = "done" /\ call[c].result.kind = "some") =>
              \E j \in 1..Len(rules) :
                  /\ RuleApplies(j, call[c].url)
                  /\ \A h \in 1..(j - 1) : ~RuleApplies(h, call[c].url)
                  /\ call[c].result.url \in Outcomes(j, 1, call[c].url)

\* C19 witness: the cache maps a short link with two tracking parameters to
\* the target of its redirect without any, the work of three programs.
C19_Witness ==
    /\ Len(rules[5].washing_programs) = 3
    /\ [k |-> ShortTracked, v |-> set_query_none(Video)] \in Range(cache)

\* C20: the mixer answers 200 exactly when wash() returned without error,
\* with the washed URL as body, or with the URL of the request when wash()
\* returned None; 400 exactly when the url parameter is missing or is no
\* URL; 429 and 500 with nothing of the request or of an error in the body:
\* the body of a 500 is "internal server error" or empty, that of a 429 is
\* empty, that of a 400 is one of two fixed texts.
C20_MixerStatus ==
    /\ [](mx.pc = "answered" =>
            /\ mx.status \in {200, 400, 429, 500}
            /\ mx.status = 400 <=>
                  /\ mx.body \in {Word("invalid url"),
                                   Word("Failed to deserialize query string")}
                  /\ mx.query.kind # "text" \/ ~mx.query.text.parses
            /\ mx.status = 200 =>
                  /\ mx.query.kind = "text" /\ mx.query.text.parses
                  /\ IsUrlPart(mx.body) \/ mx.body.parses
            /\ mx.status = 429 => mx.body = Word("")
            /\ mx.status = 500 => mx.body \in {Word("internal server error"), Word("")})
    /\ [][(mx.pc = "washing" /\ mx'.pc = "answered" /\ call[mx.c].pc = "done") =>
            LET result == call[mx.c].result IN
            /\ result.kind = "some" =>
                  mx'.status = 200 /\ mx'.body = to_string(result.url)
            /\ result.kind = "none" =>
                  /\ mx'.status = 200
                  /\ mx'.body = to_string(ParseUrl(mx.query.text.url))
                  /\ NoRuleApplies(ParseUrl(mx.query.text.url))
            /\ result.kind = "err" =>
                  mx'.status = 500 /\ mx'.body = Word("internal server error")]_vars

\* C20 witness: the redirect of the short link of a request could not be
\* resolved; the mixer has answered 500 with its fixed text.
C20_Witness ==
    /\ mx.pc = "answered"
    /\ mx.query = Text(UrlToken(ShortLink))
    /\ mx.status = 500
    /\ mx.body = Word("internal server error")

\* C20 witness of a 200: the washed URL is the body.
C20_WitnessWashed ==
    /\ mx.pc = "answered"
    /\ mx.query = Text(UrlToken(TrackedShort))
    /\ mx.status = 200
    /\ mx.body = to_string(Https("youtu.be", <<"lSwnPoo9ZK0">>, Query(<<Piece("t", "65")>>)))

\* the calls that hold the lock: between lock().await and the get or the put
Locked(c) == call[c].pc \in {"get_locked", "put_locked"}

\* C22: the cache lock is held exactly by a call that is between acquiring
\* it and its single get or put; a call that waits for the response to its
\* request, or that runs a program, does not hold it.
C22_LockNotHeldAcrossRequest ==
    /\ lock \in Calls \cup {0}
    /\ \A c \in Calls : lock = c <=> Locked(c)
    /\ \A c \in Calls : call[c].pc \in {"awaiting", "program"} => lock # c

\* C22 witness: while one call waits for the response to its request,
\* another call holds the lock for its put.
C22_Witness ==
    \E c, d \in Calls :
        /\ call[c].pc = "awaiting"
        /\ call[d].pc = "put_locked"
        /\ lock = d

\* two calls for the same URL have both missed the cache and returned a
\* washed URL
BothMissed(c, d) ==
    /\ c # d
    /\ call[c].pc = "done" /\ call[d].pc = "done"
    /\ call[c].url = call[d].url
    /\ call[c].saw.looked /\ ~call[c].saw.some
    /\ call[d].saw.looked /\ ~call[d].saw.some
    /\ call[c].result.kind = "some" /\ call[d].result.kind = "some"

\* C23: of two calls for the same URL that both missed the cache, each
\* sends its own request (when the rule resolves a redirect under Locally
\* or ViaMixer) and each stores its result; the cache never holds two
\* entries for a URL, and every store makes the stored result the value of
\* the one entry of its URL, so the last store wins; a call that waits for
\* the lock waits for a call that is about to release it, and a call
\* fails only for the response to its own request or its own configuration.
C23_NotDeduplicated ==
    /\ [](\A c, d \in Calls :
            BothMissed(c, d) =>
                /\ call[c].puts = 1 /\ call[d].puts = 1
                /\ (HasResolve(call[c].rule) /\ Configured(call[c].rule) # "Ignore") =>
                       call[c].reqs = 1 /\ call[d].reqs = 1)
    /\ [](\A i, j \in 1..Len(cache) : cache[i].k = cache[j].k => i = j)
    /\ [](\A c \in Calls :
            call[c].pc \in {"get_lock", "program"} /\ lock # 0 => Locked(lock))
    /\ [](\A c \in Calls :
            call[c].result.kind = "err" =>
                \/ /\ call[c].reqs = 1
                   /\ resolve_redirect(call[c].policy, call[c].resp) = call[c].result
                \/ /\ call[c].reqs = 0
                   /\ Configured(call[c].rule) = "ViaMixer"
                   /\ ~config.mixer_instance)
    /\ [][\A c \in Calls :
            call[c].pc = "put_locked" /\ call'[c].pc = "done" =>
                /\ cache' # <<>>
                /\ cache'[1] = [k |-> call[c].url, v |-> call'[c].result.url]]_vars

\* C23 witness: two calls for the same short link have both missed, both
\* sent a request and both stored; their results differ and the cache holds
\* one of them.
C23_Witness ==
    \E c, d \in Calls :
        /\ BothMissed(c, d)
        /\ call[c].reqs = 1 /\ call[d].reqs = 1
        /\ call[c].puts = 1 /\ call[d].puts = 1
        /\ call[c].result # call[d].result
        /\ cache = << [k |-> call[c].url, v |-> call[d].result.url] >>

\* C24: a call at an await point, and a call dropped there, holds no lock,
\* has stored nothing and has found nothing; the cache changes only in the
\* step in which a call returns a washed URL, so a call that is dropped
\* never changed it; and dropping a call changes neither cache nor lock.
C24_CancelLeavesCache ==
    /\ [](\A c \in Calls :
            (Suspended(c) \/ call[c].pc = "cancelled") =>
                /\ lock # c
                /\ call[c].puts = 0
                /\ ~call[c].saw.some)
    /\ [][cache' # cache => \E c \in Calls : Locked(c) /\ Returns(c, "some")]_vars
    /\ [][\A c \in Calls :
            (call[c].pc # "cancelled" /\ call'[c].pc = "cancelled") =>
                /\ call[c].pc \in {"get_lock", "awaiting", "program"}
                /\ cache' = cache
                /\ lock' = lock]_vars

\* C24 witness: a call was dropped while it waited for the response to its
\* request; the same URL was passed again and that call missed the cache,
\* sent its own request, stored and returned.
C24_Witness ==
    \E c \in Calls :
        /\ call[c].first.called
        /\ call[c].first.result = Pending
        /\ call[c].first.reqs = 1
        /\ call[c].pc = "done"
        /\ call[c].saw.looked /\ ~call[c].saw.some
        /\ call[c].reqs = 1
        /\ call[c].puts = 1
        /\ call[c].result.kind = "some"
        /\ lock = 0

\* C28: under UrlWasherConfig::default() the policy that wash() looks up by
\* name for a rule of rule_set() is Locally when the rule holds
\* ResolveRedirection, and the configuration has no entry under the name or
\* a domain of any other rule and names no mixer; a washer that runs with
\* it on rule_set() sends every request under Locally.
C28_DefaultPolicies ==
    /\ ~UrlWasherConfig_default.mixer_instance
    /\ \A j \in 1..Len(rule_set) :
          IF ResolveRedirection \in Range(rule_set[j].washing_programs)
          THEN policy_of(UrlWasherConfig_default, rule_set[j]) = "Locally"
          ELSE ({rule_set[j].name} \cup Range(rule_set[j].domains))
                  \cap DOMAIN UrlWasherConfig_default.redirect_policy = {}
    /\ (rules = rule_set /\ config = UrlWasherConfig_default) =>
          \A c \in Calls :
              /\ call[c].policy \in {"", "Locally"}
              /\ (call[c].rule # 0 /\ HasResolve(call[c].rule)
                  /\ call[c].prog > 1) => call[c].reqs = 1

\* C28 witness: the mixer, which runs with the default configuration, has
\* sent the request for a short link itself and waits for the response.
C28_Witness ==
    /\ mx.pc = "washing"
    /\ call[mx.c].pc = "awaiting"
    /\ call[mx.c].policy = "Locally"
    /\ call[mx.c].sent = [to |-> "url", url |-> ShortLink]
    /\ config = UrlWasherConfig_default

\* C21: the patcher changes the clipboard only in the step that follows the
\* wash of the text it read, only when the washed text differs from the
\* text read and the clipboard holds exactly the text read, and then to the
\* washed text; when the clipboard holds another text by then, that step
\* leaves it as it is.
C21_CompareBeforeWrite ==
    /\ [][(clip' # clip /\ clip'.by = "patcher") =>
            /\ job.pc = "washing"
            /\ tw.pc = "done"
            /\ tw.patched # job.dirty
            /\ clip.text = job.dirty
            /\ clip'.text = tw.patched]_vars
    /\ [][(job.pc = "washing" /\ job'.pc # "washing" /\ clip.text # job.dirty) =>
            clip' = clip]_vars

\* C21 witness: the patcher has written the washed text over the text it
\* read.
C21_Witness ==
    /\ job.outcome = "written"
    /\ clip = Clipboard(job.last_text, "patcher")
    /\ job.last_text # job.dirty

\* C21 witness: someone copied another text while the wash was in flight;
\* the washed text differed from the text read and was not written.
C21_WitnessChanged ==
    /\ job.outcome = "changed"
    /\ job.pc = "polling"
    /\ clip.by = "user"
    /\ clip.text # job.dirty

\* C25: a modify_config call publishes an AppState whose UrlWasher is built
\* from the new config and has an empty cache; the config that wash() reads
\* changes only when the supervisor takes up the published state, and then
\* to that state's config, with an empty cache and no call in progress; the
\* policy of every call is the one its washer's config gives, and every
\* cache entry is a result of washing its key under that config.
C25_ConfigSnapshot ==
    /\ [][app'.edits # app.edits =>
            /\ app'.state.washer =
                  [config |-> app'.state.config.url_washer, cache |-> <<>>]
            /\ config' = config
            /\ cache' = cache]_vars
    /\ [][config' # config =>
            /\ ~app.seen.jobs /\ app'.seen.jobs
            /\ config' = app.state.config.url_washer
            /\ cache' = <<>>
            /\ \A c \in Calls : call'[c].pc = "idle"]_vars
    /\ [](app.seen.jobs => config = app.state.config.url_washer)
    /\ [](\A c \in Live :
            call[c].policy # "" => call[c].policy = policy_of(config, rules[call[c].rule]))
    /\ [](\A e \in Range(cache) :
            \E j \in 1..Len(rules) :
                /\ RuleApplies(j, e.k)
                /\ \A h \in 1..(j - 1) : ~RuleApplies(h, e.k)
                /\ e.v \in Outcomes(j, 1, e.k))

\* C25 witness: the washer that was dropped had cached the short link
\* unresolved, under Ignore; after the change to Locally a call for the
\* same link on the new washer missed the cache, sent a request and
\* returned the target.
C25_Witness ==
    \E c \in Live :
        /\ call[c].pc = "done"
        /\ call[c].url = ShortLink
        /\ [k |-> ShortLink, v |-> set_query_none(ShortLink)] \in Range(job.dropped)
        /\ config = UrlWasherConfig_default
        /\ app.seen.jobs
        /\ call[c].saw.looked /\ ~call[c].saw.some
        /\ call[c].reqs = 1
        /\ call[c].result = OkSome(set_query_none(Video))

\* the step in which the supervisor takes up a published AppState
Supervises ==
    \/ job.pc = "start" /\ job'.pc # "start"
    \/ ~app.seen.jobs /\ app'.seen.jobs

\* C26: when the supervisor takes up a published AppState, the text wash
\* and every wash() call of the old jobs are gone and the new job is the
\* one of that state, on that state's washer; the old jobs are dropped at
\* an await point only; a job with a patcher task runs against a state
\* with enable_clipboard_patcher, and the patcher polls, washes and writes
\* the clipboard only once the paused_until of its state is reached; once
\* started, the supervisor always has a job.
C26_Supervision ==
    /\ [][Supervises =>
            /\ job.pc = "start" \/ AtAwait
            /\ tw' = IdleText
            /\ \A c \in Calls : call'[c].pc = "idle"
            /\ lock' = 0
            /\ job'.enable = app.state.config.enable_clipboard_patcher
            /\ job'.left = app.state.config.clipboard_patcher_paused_until.left
            /\ job'.pc \in {"off", "paused", "polling"}
            /\ config' = app.state.config.url_washer]_vars
    /\ [](app.seen.jobs =>
            job.enable = app.state.config.enable_clipboard_patcher)
    /\ [](job.pc # "start" => (job.pc = "off" <=> ~job.enable))
    /\ [](job.pc \in {"polling", "washing", "restart"} => job.left = 0)
    /\ [](job.pc \in {"start", "off", "paused"} => tw.pc = "idle")
    /\ [][(clip' # clip /\ clip'.by = "patcher") => job.enable /\ job.left = 0]_vars
    /\ [][job.pc # "start" => job'.pc # "start"]_vars

\* C26 witness: a pause was published and taken up; the clipboard holds a
\* text that the poller of the paused job has not read, and the job sleeps
\* until the pause is over.
C26_Witness ==
    /\ app.seen.jobs
    /\ job.pc = "paused"
    /\ job.left > 0
    /\ job.last_text = <<>>
    /\ clip.text # <<>>

\* C26 witness: a new AppState is published while a wash() of the running
\* job waits for the response to its request.
C26_WitnessInFlight ==
    /\ ~app.seen.jobs
    /\ job.pc = "washing"
    /\ tw.c # 0
    /\ call[tw.c].pc = "awaiting"

\* the step in which ClipboardPoller::poll reports a text
Reports == job.pc = "polling" /\ job'.pc = "washing"

\* C27 as stated: the patcher never takes up for washing a text that the
\* patcher itself wrote to the clipboard and nobody has changed since.
C27_NeverRewashesOwnOutput ==
    [][Reports => clip.by # "patcher"]_vars

\* C27 amended: poll reports a text only when it differs from last_text,
\* and makes it last_text; while the clipboard holds what this poller wrote
\* through set_text, last_text is that text, so this poller does not report
\* it.
C27_PollerReportsChanges ==
    /\ [][Reports =>
            /\ clip.text # job.last_text
            /\ job'.last_text = clip.text
            /\ job'.dirty = clip.text
            /\ tw'.text = clip.text
            /\ ~job.own]_vars
    /\ [](job.own => clip = Clipboard(job.last_text, "patcher"))

\* C27 witness: the patcher has written the washed text and its poller is
\* polling again; the clipboard still holds that text.
C27_Witness ==
    /\ job.own
    /\ job.pc = "polling"
    /\ job.outcome = "written"
    /\ clip.by = "patcher"

\* the step in which the pause item of the tray menu is selected
SelectsPause == app'.edits # app.edits /\ app'.event = "pause"

\* the patcher is enabled and no pause is running
NotPausedNow(cfg) ==
    /\ cfg.enable_clipboard_patcher
    /\ ~(cfg.clipboard_patcher_paused_until.some
         /\ cfg.clipboard_patcher_paused_until.left > 0)

\* C29: whenever the patcher is enabled and no pause is running, the pause
\* item is unchecked and reads "Pause clipboard debloater for 30 sec.";
\* selecting it then sets paused_until to 30 seconds from now, and
\* selecting it while a pause is running clears paused_until.
C29_PauseItem ==
    /\ [](NotPausedNow(app.state.config) =>
            /\ ~update_tray_state(app.state.config).checked
            /\ update_tray_state(app.state.config).text
                  = <<"Pause clipboard debloater for ", 30, " sec.">>)
    /\ [][(SelectsPause /\ NotPausedNow(app.state.config)) =>
            app'.state.config.clipboard_patcher_paused_until
               = PausedFor(CLIPBOARD_PAUSE_DURATION)]_vars
    /\ [][(SelectsPause /\ ~NotPausedNow(app.state.config)) =>
            app'.state.config.clipboard_patcher_paused_until = NotPaused]_vars

\* config.json holds the settings of the AppState published last
Written ==
    /\ disk.file.written
    /\ disk.file.config.url_washer = app.state.config.url_washer
    /\ disk.file.config.enable_clipboard_patcher
          = app.state.config.enable_clipboard_patcher
    /\ disk.file.config.clipboard_patcher_paused_until.some
          = app.state.config.clipboard_patcher_paused_until.some

\* C30 as stated: once a config has been published, the config published
\* last is eventually in the config file.
C30_EventuallyWritten == (app.edits > 0) ~> Written

\* C30 amended: once a config has been published, eventually the config
\* published last is in the config file or the save of it has failed; the
\* file changes only when a save ends, to what that save wrote; the loop
\* never ends, whether a save fails or not.
C30_EventuallySaved ==
    /\ (app.edits > 0) ~>
          (Written \/ (app.seen.persist /\ disk.failed /\ disk.pc # "saving"))
    /\ [](disk.pc \in {"waiting", "saving", "throttle"})
    /\ [][disk'.file # disk.file =>
            /\ disk.pc = "saving"
            /\ disk'.file = disk.pending
            /\ ~disk'.failed]_vars
    /\ [](app.edits = 0 => ~disk.file.written)

\* C30 witness: two configs were published, and after a save the file
\* holds the second; the loop waits for the next change.
C30_Witness ==
    /\ app.edits > 1
    /\ Written
    /\ ~disk.failed
    /\ app.seen.persist
    /\ disk.pc = "waiting"

====
